---------------------------- MODULE Spec2Model ----------------------------
(***************************************************************************)
(* A model of the data processing pipeline of GroceryPricingStudy:         *)
(* census_cleaning.py, location_cleaning.py, product_cleaning.py and       *)
(* zip_merge.py as they appear in the data processing notebook.            *)
(*                                                                         *)
(* Every stage is a batch script over CSV tables.  A table is a sequence   *)
(* of rows, a row a record.  A numeric cell is a pair <<n, d>>: the        *)
(* float n/d for d > 0 (kept in lowest terms), and the three IEEE values   *)
(* a pandas division produces for d = 0: NaN (the missing value), inf and  *)
(* -inf.  A text cell the code inspects character by character is a        *)
(* sequence of one-character strings.                                      *)
(***************************************************************************)
EXTENDS Integers, Sequences, FiniteSets, TLC

VARIABLES
    CENSUS_FILE,            \* cleaned_census_data.csv: Absent, or its rows
    PROCESSED_CENSUS_FILE,  \* processed_census_data.csv: Absent, or its rows
    census_pc,              \* process_census_data: "start", "returned", "returned None"
    PRODUCTS_FILE,          \* kroger_product_data.csv
    CLEANED_PRODUCTS_FILE,  \* cleaned_product_data.csv
    product_pc,             \* clean_product_data: "start", "returned",
                            \* "returned None", "raised"
    LOCATIONS_FILE,         \* kroger_locations.csv
    CLEANED_LOCATIONS_FILE, \* cleaned_location_data.csv
    geo_pc,                 \* geocode_store_locations: where the run is
    cleaned_df,             \* its local cleaned_df
    new_locations,          \* its local new_locations (bound or not)
    position,               \* the row of new_locations the loop is at
    attempt,                \* fetch_geocode: the attempts made for that row
    looked_up,              \* the rows gmaps.geocode was called for in this
                            \* run: <<Location ID, address passed>>
    slept,                  \* whether time.sleep(1) has run since the last
                            \* call of gmaps.geocode in this run
    cleaned_before,         \* CLEANED_LOCATIONS_FILE as the run found it
    runs,                   \* the number of runs of location_cleaning.py so far
    SHAPEFILE,              \* tl_2020_us_zcta520.shp
    FINAL_DATASET,          \* final_dataset.csv
    merge_pc,               \* zip_merge.py: the statement the script is at
    zip_location_summary,   \* its tables, each <<>> until it is computed
    product_grouped_df,
    store_product_summary,
    zip_product_complete,
    callee,                 \* a function of clean_product_data applied to one
    argument,               \* cell: its name, the cell, what it returned
    result,                 \* (<<>> before it returns and when it raises)
    call_pc,                \* and whether it was called, returned or raised
    pipeline_pc,            \* the orchestrator: the statement it is at
    script,                 \* the index of the script run_script is called with
    started,                \* the scripts subprocess.run has started, in order
    statuses,               \* the exit statuses of the scripts that have exited
    exit_status,            \* the exit status of the orchestrator (NoStatus
                            \* while it runs)
    message,                \* what step 3 printed about final_dataset.csv
    environ,                \* os.environ of the notebook's process: key -> value
    ENV_FILE,               \* kroger_client_info.env: key -> value
    now,                    \* datetime.now(), in ticks
    token_pc,               \* get_kroger_location_token: called or not, how
                            \* the last call ended
    token_result,           \* what the last call returned
    posted,                 \* whether the last call posted to TOKEN_URL
    token_call,             \* environ, ENV_FILE and now when it was called
    env_loaded,             \* whether load_dotenv() of this process read the
                            \* keys of ENV_FILE
    calls,                  \* the calls of get_kroger_location_token so far
    processed_zip_file,     \* processed_zips.txt: Absent, or its lines
    stores_file,            \* kroger_locations.csv as the acquisition loop
                            \* reads and writes it
    acq_pc,                 \* the acquisition cell: the statement it is at
    processed_zip_codes,    \* its locals
    condensed_zip_list,
    stores,
    existing_loc_ids,
    zip_index,              \* the element of condensed_zip_list the loop is at
    queried,                \* the ZIP codes searched in this run
    last_search,            \* ZIP code -> how its latest search ended
    processed_before,       \* processed_zips.txt as the run found it
    stores_before,          \* kroger_locations.csv as the run found it
    acq_runs                \* the runs of the cell so far

census_vars == <<CENSUS_FILE, PROCESSED_CENSUS_FILE, census_pc>>
product_vars == <<PRODUCTS_FILE, CLEANED_PRODUCTS_FILE, product_pc>>

geo_vars == <<LOCATIONS_FILE, CLEANED_LOCATIONS_FILE, geo_pc, cleaned_df,
              new_locations, position, attempt, looked_up, cleaned_before, runs, slept>>

merge_vars == <<SHAPEFILE, FINAL_DATASET, merge_pc, zip_location_summary,
                product_grouped_df, store_product_summary, zip_product_complete>>

call_vars == <<callee, argument, result, call_pc>>

pipeline_vars == <<pipeline_pc, script, started, statuses, exit_status, message>>

token_vars == <<environ, ENV_FILE, now, token_pc, token_result, posted,
                token_call, env_loaded, calls>>

acquisition_vars == <<processed_zip_file, stores_file, acq_pc, processed_zip_codes,
                      condensed_zip_list, stores, existing_loc_ids, zip_index,
                      queried, last_search, processed_before, stores_before,
                      acq_runs>>

vars == <<census_vars, product_vars, geo_vars, merge_vars, call_vars, pipeline_vars,
          token_vars, acquisition_vars>>

(***************************************************************************)
(* Bounds of the model.                                                    *)
(***************************************************************************)
\* The largest raw census count of an input row.
MaxCount == 1
\* The number of census columns of an input row that differ from the
\* row's common value (the others all hold that common value).
MaxVarying == 2
\* The largest number of rows of a raw product table.
MaxRows == 2
\* The retrieval dates of the observations are 1..MaxDate.
MaxDate == 2
\* The last tick of the clock.
MaxTime == 3
\* The largest number of calls of get_kroger_location_token.
MaxCalls == 3
\* The largest number of rows of a raw location table.
MaxLocs == 2
\* The largest number of runs of location_cleaning.py in a behaviour.
MaxRuns == 2
\* The largest number of rows of the cleaned product table the merge reads.
MaxObs == 2
\* The largest number of pieces a text cell handed to one function is made of.
MaxPieces == 3

(***************************************************************************)
(* Numbers: floats as exact fractions, with NaN, inf and -inf.             *)
(***************************************************************************)
NaN == <<0, 0>>
Inf == <<1, 0>>
NegInf == <<-1, 0>>

Abs(i) == IF i < 0 THEN -i ELSE i

RECURSIVE GCD(_, _)
GCD(a, b) == IF b = 0 THEN a ELSE GCD(b, a % b)

\* The fraction n/d (d # 0) in lowest terms with a positive denominator.
Frac(n, d) ==
    LET g == GCD(Abs(n), Abs(d))
        s == IF d < 0 THEN -1 ELSE 1
    IN  <<(s * n) \div g, (s * d) \div g>>

Num(i) == <<i, 1>>

IsNaN(x) == x = NaN
IsFinite(x) == x[2] > 0

\* pandas isna: NaN is the missing value; inf is not missing.
isna(x) == IsNaN(x)

\* Series + Series, element by element (IEEE: NaN propagates).
FAdd(x, y) ==
    IF IsNaN(x) \/ IsNaN(y) THEN NaN
    ELSE IF ~IsFinite(x) /\ ~IsFinite(y) THEN (IF x = y THEN x ELSE NaN)
    ELSE IF ~IsFinite(x) THEN x
    ELSE IF ~IsFinite(y) THEN y
    ELSE Frac(x[1] * y[2] + y[1] * x[2], x[2] * y[2])

\* Series / Series, element by element, as numpy float division does it:
\* 0/0 is NaN, a non-zero value over 0 is inf or -inf, nothing raises.
FDiv(x, y) ==
    IF IsNaN(x) \/ IsNaN(y) THEN NaN
    ELSE IF ~IsFinite(x) /\ ~IsFinite(y) THEN NaN
    ELSE IF ~IsFinite(y) THEN Num(0)
    ELSE IF y[1] = 0
         THEN (IF ~IsFinite(x) THEN x
               ELSE IF x[1] = 0 THEN NaN
               ELSE IF x[1] > 0 THEN Inf ELSE NegInf)
    ELSE IF ~IsFinite(x) THEN (IF y[1] > 0 THEN x ELSE <<-x[1], 0>>)
    ELSE Frac(x[1] * y[2], x[2] * y[1])

\* x <= y on floats: false as soon as one side is NaN.
FLeq(x, y) ==
    IF IsNaN(x) \/ IsNaN(y) THEN FALSE
    ELSE IF x = y THEN TRUE
    ELSE IF x = NegInf \/ y = Inf THEN TRUE
    ELSE IF x = Inf \/ y = NegInf THEN FALSE
    ELSE x[1] * y[2] <= y[1] * x[2]

FLt(x, y) == FLeq(x, y) /\ x # y

FNeg(x) == <<-x[1], x[2]>>

FSub(x, y) == FAdd(x, FNeg(y))

\* Series * Series, element by element, on finite values and NaN.
FMul(x, y) ==
    IF IsNaN(x) \/ IsNaN(y) \/ ~IsFinite(x) \/ ~IsFinite(y) THEN NaN
    ELSE Frac(x[1] * y[1], x[2] * y[2])

NotNaN(x) == x # NaN

RECURSIVE SumSeq(_)
SumSeq(xs) == IF xs = <<>> THEN Num(0) ELSE FAdd(Head(xs), SumSeq(Tail(xs)))

\* Series.mean(): the mean of the values that are not missing, NaN when
\* there is none.
mean(xs) ==
    LET ys == SelectSeq(xs, NotNaN)
    IN  IF ys = <<>> THEN NaN ELSE FDiv(SumSeq(ys), Num(Len(ys)))

\* The sample variance (ddof = 1) under Series.std(): NaN below two values.
var(xs) ==
    LET ys == SelectSeq(xs, NotNaN)
        m == mean(ys)
        sq == [i \in DOMAIN ys |-> FMul(FSub(ys[i], m), FSub(ys[i], m))]
    IN  IF Len(ys) < 2 THEN NaN ELSE FDiv(SumSeq(sq), Num(Len(ys) - 1))

\* Series.min() and Series.max() over the values that are not missing.
min(xs) ==
    LET ys == SelectSeq(xs, NotNaN)
    IN  IF ys = <<>> THEN NaN
        ELSE ys[CHOOSE i \in DOMAIN ys : \A j \in DOMAIN ys : FLeq(ys[i], ys[j])]

max(xs) ==
    LET ys == SelectSeq(xs, NotNaN)
    IN  IF ys = <<>> THEN NaN
        ELSE ys[CHOOSE i \in DOMAIN ys : \A j \in DOMAIN ys : FLeq(ys[j], ys[i])]

\* Series.median(): the middle value, or the mean of the two middle ones.
median(xs) ==
    LET ys == SelectSeq(xs, NotNaN)
        n == Len(ys)
        \* the value at rank k (1 the smallest)
        AtRank(k) ==
            ys[CHOOSE i \in DOMAIN ys :
                /\ Cardinality({j \in DOMAIN ys : FLt(ys[j], ys[i])}) < k
                /\ Cardinality({j \in DOMAIN ys : FLeq(ys[j], ys[i])}) >= k]
    IN  IF n = 0 THEN NaN
        ELSE IF n % 2 = 1 THEN AtRank((n + 1) \div 2)
        ELSE FDiv(FAdd(AtRank(n \div 2), AtRank(n \div 2 + 1)), Num(2))

\* round(2) of a float: to the nearest hundredth, a tie to the even one.
round2(x) ==
    IF ~IsFinite(x) THEN x
    ELSE LET n == 100 * x[1]
             q == n \div x[2]
             r == n % x[2]
             up == 2 * r > x[2] \/ (2 * r = x[2] /\ q % 2 = 1)
         IN  Frac(IF up THEN q + 1 ELSE q, 100)

\* A standard deviation is kept as the variance it is the root of, and a
\* mean of such values as the list of its terms: a square root has no
\* exact fraction.
Sqrt(v) == <<"sqrt", v>>
MeanOf(terms) == <<"mean", terms>>

RECURSIVE IsNullStat(_)
IsNullStat(v) ==
    IF v[1] = "sqrt" THEN v[2] = NaN
    ELSE \A i \in DOMAIN v[2] : IsNullStat(v[2][i])

\* Series.fillna(0): only the missing value is replaced.
fillna0(x) == IF isna(x) THEN Num(0) ELSE x

\* A CSV file: whether it exists, and its rows when it does.
Absent == [exists |-> FALSE, rows |-> <<>>]
File(rows) == [exists |-> TRUE, rows |-> rows]

(***************************************************************************)
(* census_cleaning.py                                                      *)
(***************************************************************************)
CountCols ==
    {"Poverty Count", "SNAP Households", "White Population",
     "Black Population", "American Indian Population",
     "Pacific Islander Population", "Asian Population",
     "Other Race Population", "Two or More Races Population",
     "High School Graduate", "Bachelor's Degree", "Master's Degree",
     "Doctorate Degree"}

KeptCols == {"Total Population", "Median Household Income"}

RawCensusCols == KeptCols \cup CountCols

PctCols ==
    {"Poverty Rate (%)", "SNAP Participation (%)", "White Population (%)",
     "Black Population (%)", "American Indian Population (%)",
     "Asian Population (%)", "Other Race Population (%)",
     "Two or More Races (%)", "High School Graduate (%)",
     "Bachelor's Degree (%)", "Master's Degree (%)", "Doctorate Degree (%)"}

\* The numerator of each percentage field, from the raw row r.
PctNumerator(r, c) ==
    CASE c = "Poverty Rate (%)" -> r["Poverty Count"]
      [] c = "SNAP Participation (%)" -> r["SNAP Households"]
      [] c = "White Population (%)" -> r["White Population"]
      [] c = "Black Population (%)" -> r["Black Population"]
      [] c = "American Indian Population (%)" -> r["American Indian Population"]
      [] c = "Asian Population (%)" -> r["Asian Population"]
      [] c = "Other Race Population (%)" ->
             FAdd(r["Other Race Population"], r["Pacific Islander Population"])
      [] c = "Two or More Races (%)" -> r["Two or More Races Population"]
      [] c = "High School Graduate (%)" -> r["High School Graduate"]
      [] c = "Bachelor's Degree (%)" -> r["Bachelor's Degree"]
      [] c = "Master's Degree (%)" -> r["Master's Degree"]
      [] c = "Doctorate Degree (%)" -> r["Doctorate Degree"]

\* One row through process_census_data: the percentage columns are added,
\* the count columns dropped, and fillna(0) applied to every column left.
ProcessCensusRow(r) ==
    [c \in KeptCols \cup PctCols |->
        IF c \in KeptCols THEN fillna0(r[c])
        ELSE fillna0(FDiv(PctNumerator(r, c), r["Total Population"]))]

\* The values a raw census cell takes: missing, or a count.
CensusVals == {NaN} \cup {Num(i) : i \in 0..MaxCount}

\* The raw census rows of the model: any Total Population, and any values
\* in at most MaxVarying of the other columns, the rest sharing one value.
RawCensusRows ==
    {[c \in RawCensusCols |->
        IF c = "Total Population" THEN tp
        ELSE IF c \in DOMAIN dev THEN dev[c] ELSE base] :
     tp \in CensusVals, base \in CensusVals,
     dev \in UNION {[D -> CensusVals] :
                    D \in {S \in SUBSET (RawCensusCols \ {"Total Population"}) :
                           Cardinality(S) <= MaxVarying}}}

CensusIdle ==
    /\ CENSUS_FILE = Absent
    /\ PROCESSED_CENSUS_FILE = Absent
    /\ census_pc = "idle"

CensusStart ==
    /\ CENSUS_FILE \in {Absent} \cup {File(<<r>>) : r \in RawCensusRows}
    /\ PROCESSED_CENSUS_FILE = Absent
    /\ census_pc = "start"

\* process_census_data() when cleaned_census_data.csv is missing.
CensusFileNotFound ==
    /\ census_pc = "start"
    /\ ~CENSUS_FILE.exists
    /\ census_pc' = "returned None"
    /\ UNCHANGED <<CENSUS_FILE, PROCESSED_CENSUS_FILE>>
    /\ UNCHANGED <<product_vars, geo_vars, merge_vars, call_vars, pipeline_vars, token_vars, acquisition_vars>>

\* process_census_data() on an existing file.
process_census_data ==
    /\ census_pc = "start"
    /\ CENSUS_FILE.exists
    /\ PROCESSED_CENSUS_FILE' =
          File([i \in 1..Len(CENSUS_FILE.rows) |->
                   ProcessCensusRow(CENSUS_FILE.rows[i])])
    /\ census_pc' = "returned"
    /\ UNCHANGED CENSUS_FILE
    /\ UNCHANGED <<product_vars, geo_vars, merge_vars, call_vars, pipeline_vars, token_vars, acquisition_vars>>

(***************************************************************************)
(* Text.  A str is a sequence of one-character strings; a missing text     *)
(* cell (the float NaN of a pandas object column) is NoStr.                *)
(***************************************************************************)
NoStr == <<"<NaN>">>

UpperCase == <<"A", "B", "C", "D", "E", "F", "G", "H", "I", "J", "K", "L", "M",
               "N", "O", "P", "Q", "R", "S", "T", "U", "V", "W", "X", "Y", "Z">>
LowerCase == <<"a", "b", "c", "d", "e", "f", "g", "h", "i", "j", "k", "l", "m",
               "n", "o", "p", "q", "r", "s", "t", "u", "v", "w", "x", "y", "z">>
Digits == <<"0", "1", "2", "3", "4", "5", "6", "7", "8", "9">>

Range(f) == {f[i] : i \in DOMAIN f}

IsAlpha(ch) == ch \in Range(UpperCase) \cup Range(LowerCase)
IsDigit(ch) == ch \in Range(Digits)
DigitValue(ch) == (CHOOSE i \in DOMAIN Digits : Digits[i] = ch) - 1

LowerChar(ch) ==
    IF ch \in Range(UpperCase)
    THEN LowerCase[CHOOSE i \in DOMAIN UpperCase : UpperCase[i] = ch]
    ELSE ch

\* str.lower()
lower(s) == [i \in DOMAIN s |-> LowerChar(s[i])]

\* Series.str.lower() on one cell: a missing cell stays missing.
str_lower(s) == IF s = NoStr THEN NoStr ELSE lower(s)

\* sub in s (Python's substring test).
Contains(s, sub) ==
    \E i \in 0..(Len(s) - Len(sub)) :
        \A j \in 1..Len(sub) : s[i + j] = sub[j]

\* s[from:] and s[from:to] with 1-based, inclusive positions.
Slice(s, from, to) == [i \in 1..(to - from + 1) |-> s[from + i - 1]]

\* str(value) of a cell: a missing cell prints as "nan".
str(s) == IF s = NoStr THEN <<"n", "a", "n">> ELSE s

\* str.strip() of blanks at both ends.
RECURSIVE strip(_)
strip(s) ==
    IF s = <<>> THEN s
    ELSE IF s[1] = " " THEN strip(Tail(s))
    ELSE IF s[Len(s)] = " " THEN strip(SubSeq(s, 1, Len(s) - 1))
    ELSE s

(***************************************************************************)
(* product_cleaning.py                                                     *)
(***************************************************************************)
\* str.zfill(width): zeros on the left up to width, after a leading sign.
zfill(s, width) ==
    IF Len(s) >= width THEN s
    ELSE LET zeros == [i \in 1..(width - Len(s)) |-> "0"]
         IN  IF s # <<>> /\ s[1] \in {"+", "-"}
             THEN <<s[1]>> \o zeros \o Tail(s)
             ELSE zeros \o s

LocationIdWidth == 8

pad_location_id(location_id) == zfill(location_id, LocationIdWidth)

\* The categories tested in the other order.
classify_product_bread_first(description) ==
    LET desc == lower(description)
    IN  IF Contains(desc, <<"b", "r", "e", "a", "d">>) THEN "Bread"
        ELSE IF Contains(desc, <<"e", "g", "g">>) THEN "Egg"
        ELSE "Other"

classify_product(description) ==
    LET desc == lower(description)
    IN  IF Contains(desc, <<"e", "g", "g">>) THEN "Egg"
        ELSE IF Contains(desc, <<"b", "r", "e", "a", "d">>) THEN "Bread"
        ELSE "Other"

\* re.search(r'([\d\.]+)', text): the first maximal run of digits and dots,
\* <<>> when there is none.
NumericToken(text) ==
    LET hits == {i \in DOMAIN text : IsDigit(text[i]) \/ text[i] = "."}
    IN  IF hits = {} THEN <<>>
        ELSE LET first == CHOOSE i \in hits : \A j \in hits : i <= j
                 last == CHOOSE k \in first..Len(text) :
                            /\ \A j \in first..k : j \in hits
                            /\ (k = Len(text) \/ (k + 1) \notin hits)
             IN  Slice(text, first, last)

\* float(token) raises ValueError unless the token is digits with at most
\* one dot and at least one digit.
FloatRaises(token) ==
    \/ Cardinality({i \in DOMAIN token : token[i] = "."}) > 1
    \/ \A i \in DOMAIN token : token[i] = "."

RECURSIVE Pow10(_)
Pow10(k) == IF k = 0 THEN 1 ELSE 10 * Pow10(k - 1)

RECURSIVE DigitsValue(_)
DigitsValue(ds) ==
    IF ds = <<>> THEN 0
    ELSE 10 * DigitsValue(SubSeq(ds, 1, Len(ds) - 1)) + DigitValue(ds[Len(ds)])

\* float(token) of a well-formed token.
float(token) ==
    LET dots == {i \in DOMAIN token : token[i] = "."}
        dot == IF dots = {} THEN Len(token) + 1 ELSE CHOOSE i \in dots : TRUE
        ds == SelectSeq(token, IsDigit)
    IN  Frac(DigitsValue(ds), Pow10(Len(token) - dot + (IF dots = {} THEN 1 ELSE 0)))

extract_quantity_raises(size) ==
    LET token == NumericToken(str(size))
    IN  token # <<>> /\ FloatRaises(token)

extract_quantity(size) ==
    LET token == NumericToken(str(size))
    IN  IF token # <<>> THEN float(token) ELSE Num(-1)

\* re.search(r'[a-zA-Z]+.*$', text): from the first letter to the end.
extract_uom(size) ==
    LET text == str(size)
        hits == {i \in DOMAIN text : IsAlpha(text[i])}
    IN  IF hits = {} THEN <<"u", "n", "i", "t">>
        ELSE strip(Slice(text, CHOOSE i \in hits : \A j \in hits : i <= j,
                         Len(text)))

\* A raw price cell of the CSV: a number, or text that is no number, or
\* nothing.  pd.to_numeric(errors="coerce") keeps the number and turns the
\* rest into NaN.
PriceCell(kind, val) == [kind |-> kind, val |-> val]
to_numeric(cell) == IF cell.kind = "num" THEN cell.val ELSE NaN

\* Lines 374-375: to_numeric(..., errors="coerce").fillna(0).
normalize_price(cell) == fillna0(to_numeric(cell))

\* The mask with the stock level compared as written, not lowercased.
inactive_items_mask_case_sensitive(row) ==
    /\ row["Stock Level"] = <<"u", "n", "k", "n", "o", "w", "n">>
    /\ row["Regular Price"] = Num(0)
    /\ row["Promo Price"] = Num(0)

\* Lines 381-383: the mask of the rows taken as inactive, on a row whose
\* prices are normalized.  A missing Stock Level compares unequal.
inactive_items_mask(row) ==
    /\ str_lower(row["Stock Level"]) = <<"u", "n", "k", "n", "o", "w", "n">>
    /\ row["Regular Price"] = Num(0)
    /\ row["Promo Price"] = Num(0)

\* Lines 338-377 on one row: the padded ID, the derived columns and the
\* normalized prices.
CleanRow(raw) ==
    LET quantity == extract_quantity(raw["Size"])
        regular == normalize_price(raw["Regular Price"])
        promo == normalize_price(raw["Promo Price"])
    IN  [raw EXCEPT !["Location ID"] = pad_location_id(raw["Location ID"]),
                    !["Regular Price"] = regular,
                    !["Promo Price"] = promo]
        @@ [c \in {"Product Category"} |-> classify_product(raw["Description"])]
        @@ [c \in {"Quantity"} |-> quantity]
        @@ [c \in {"UOM"} |-> extract_uom(raw["Size"])]
        @@ [c \in {"Price per Unit"} |-> FDiv(regular, quantity)]
        @@ [c \in {"Promo Price per Unit"} |-> FDiv(promo, quantity)]

\* The columns drop_duplicates compares (line 387).
DedupSubset == <<"Product ID", "Location ID", "Date Retrieved">>

KeyOf(row, subset) == [i \in DOMAIN subset |-> row[subset[i]]]

\* DataFrame.drop_duplicates(subset=...): the first row of each key stays,
\* in the order of the table.
drop_duplicates(df, subset) ==
    LET keep == {i \in DOMAIN df :
                    \A j \in 1..(i - 1) : KeyOf(df[j], subset) # KeyOf(df[i], subset)}
        Pick[n \in 0..Len(df)] ==
            IF n = 0 THEN <<>>
            ELSE IF n \in keep THEN Append(Pick[n - 1], df[n]) ELSE Pick[n - 1]
    IN  Pick[Len(df)]

\* df.loc[~mask]: the rows the mask does not take, in order.
DropInactive(df) ==
    LET Pick[n \in 0..Len(df)] ==
            IF n = 0 THEN <<>>
            ELSE IF inactive_items_mask(df[n]) THEN Pick[n - 1]
            ELSE Append(Pick[n - 1], df[n])
    IN  Pick[Len(df)]

\* What makes clean_product_data raise instead of returning: .zfill or
\* .lower called on the float of a missing cell (lines 335, 344), float()
\* of a malformed token (line 358), and the .str accessor of a Stock Level
\* column that holds no text at all (line 381).
CleanRaises(df) ==
    \/ \E i \in DOMAIN df : df[i]["Location ID"] = NoStr
    \/ \E i \in DOMAIN df : df[i]["Description"] = NoStr
    \/ \E i \in DOMAIN df : extract_quantity_raises(df[i]["Size"])
    \/ \A i \in DOMAIN df : df[i]["Stock Level"] = NoStr

\* The cleaning with the duplicates dropped on the IDs as read, before
\* they are padded.
CleanTableDedupUnpadded(df) ==
    LET deduped == drop_duplicates(df, DedupSubset)
    IN  DropInactive([i \in DOMAIN deduped |-> CleanRow(deduped[i])])

\* Lines 338-387 on the whole table.
CleanTable(df) ==
    drop_duplicates(DropInactive([i \in DOMAIN df |-> CleanRow(df[i])]),
                    DedupSubset)

\* A missing cell of a column the model keeps whole, and a missing date.
NoValue == "<NaN>"
NaT == 0

Text7 == <<"7">>
Text07 == <<"0", "7">>
Text8 == <<"8">>
TextUnknown == <<"U", "n", "k", "n", "o", "w", "n">>
TextHIGH == <<"H", "I", "G", "H">>

\* The products on sale: what every observation of a product repeats.
Catalogue ==
    [p \in {"P1", "P2", "P3", "P4"} |->
        CASE p = "P1" ->
                [Description |-> <<"E", "g", "g", "s">>,
                 Size |-> <<"2", " ", "c", "t">>, Brand |-> "Kroger"]
          [] p = "P2" ->
                [Description |-> <<"R", "y", "e", " ", "B", "r", "e", "a", "d">>,
                 Size |-> <<"E", "a", "c", "h">>, Brand |-> "Wonder"]
          [] p = "P3" ->
                [Description |-> <<"O", "t", "h", "e", "r", " ", "E", "g", "g", "-", "s">>,
                 Size |-> <<"1", " ", "d", "z">>, Brand |-> "Kroger"]
          [] p = "P4" ->
                [Description |-> <<"E", "g", "g", "s">>,
                 Size |-> <<"2", " ", "c", "t">>, Brand |-> NoValue]]

\* The keys of the raw rows: one base key, and the keys that differ from
\* it in one column (two of the Location IDs pad to the same ID).
RawKeys ==
    {<<p, Text7, 1>> : p \in {"P1", "P2"}}
    \cup {<<"P1", l, 1>> : l \in {Text7, Text07, Text8, NoStr}}
    \cup {<<"P1", Text7, d>> : d \in {NaT} \cup 1..MaxDate}

\* Stock level and prices of the raw rows: the inactive combination, and
\* the combinations that differ from it in one column.
RawStates ==
    {<<st, PriceCell("num", Num(0)), PriceCell("num", Num(0))>> :
        st \in {TextUnknown, TextHIGH, NoStr}}
    \cup {<<TextUnknown, c, PriceCell("num", Num(0))>> :
        c \in {PriceCell("num", Num(5)), PriceCell("text", NaN)}}
    \cup {<<TextUnknown, PriceCell("num", Num(0)), PriceCell("num", Num(3))>>}

RawProductRow(k, st) ==
    [c \in {"Product ID", "Location ID", "Date Retrieved", "Stock Level",
            "Regular Price", "Promo Price", "Size", "Description", "Brand"} |->
        CASE c = "Product ID" -> k[1]
          [] c = "Location ID" -> k[2]
          [] c = "Date Retrieved" -> k[3]
          [] c = "Stock Level" -> st[1]
          [] c = "Regular Price" -> st[2]
          [] c = "Promo Price" -> st[3]
          [] c = "Size" -> Catalogue[k[1]].Size
          [] c = "Description" -> Catalogue[k[1]].Description
          [] c = "Brand" -> Catalogue[k[1]].Brand]

RawProductRows == {RawProductRow(k, st) : k \in RawKeys, st \in RawStates}

RawProductTables == UNION {[1..n -> RawProductRows] : n \in 0..MaxRows}

ProductIdle ==
    /\ PRODUCTS_FILE = Absent
    /\ CLEANED_PRODUCTS_FILE = Absent
    /\ product_pc = "idle"

ProductStart ==
    /\ PRODUCTS_FILE \in {Absent} \cup {File(t) : t \in RawProductTables}
    /\ CLEANED_PRODUCTS_FILE = Absent
    /\ product_pc = "start"

\* clean_product_data() when kroger_product_data.csv is missing.
ProductFileNotFound ==
    /\ product_pc = "start"
    /\ ~PRODUCTS_FILE.exists
    /\ product_pc' = "returned None"
    /\ UNCHANGED <<PRODUCTS_FILE, CLEANED_PRODUCTS_FILE>>
    /\ UNCHANGED <<census_vars, geo_vars, merge_vars, call_vars, pipeline_vars, token_vars, acquisition_vars>>

\* clean_product_data() on a file without rows (lines 329-331).
ProductDataEmpty ==
    /\ product_pc = "start"
    /\ PRODUCTS_FILE.exists
    /\ PRODUCTS_FILE.rows = <<>>
    /\ product_pc' = "returned None"
    /\ UNCHANGED <<PRODUCTS_FILE, CLEANED_PRODUCTS_FILE>>
    /\ UNCHANGED <<census_vars, geo_vars, merge_vars, call_vars, pipeline_vars, token_vars, acquisition_vars>>

\* clean_product_data() stopped by an exception: nothing is written.
clean_product_data_raises ==
    /\ product_pc = "start"
    /\ PRODUCTS_FILE.exists
    /\ PRODUCTS_FILE.rows # <<>>
    /\ CleanRaises(PRODUCTS_FILE.rows)
    /\ product_pc' = "raised"
    /\ UNCHANGED <<PRODUCTS_FILE, CLEANED_PRODUCTS_FILE>>
    /\ UNCHANGED <<census_vars, geo_vars, merge_vars, call_vars, pipeline_vars, token_vars, acquisition_vars>>

\* clean_product_data() to its end: the cleaned table is written.
clean_product_data ==
    /\ product_pc = "start"
    /\ PRODUCTS_FILE.exists
    /\ PRODUCTS_FILE.rows # <<>>
    /\ ~CleanRaises(PRODUCTS_FILE.rows)
    /\ CLEANED_PRODUCTS_FILE' = File(CleanTable(PRODUCTS_FILE.rows))
    /\ product_pc' = "returned"
    /\ UNCHANGED PRODUCTS_FILE
    /\ UNCHANGED <<census_vars, geo_vars, merge_vars, call_vars, pipeline_vars, token_vars, acquisition_vars>>

(***************************************************************************)
(* The functions clean_product_data applies to each cell, on one cell.     *)
(***************************************************************************)
\* The texts made of at most n of the pieces, one after the other.
Texts(pieces, n) ==
    LET Upto[k \in 0..n] ==
            IF k = 0 THEN {<<>>}
            ELSE Upto[k - 1] \cup {t \o q : t \in Upto[k - 1], q \in pieces}
    IN  Upto[n]

\* Location IDs of seven and of eight characters, digits and a sign.
LocationIdPieces ==
    {<<"9", "7", "0", "0", "3", "3", "6">>,
     <<"1", "2", "3", "4", "5", "6", "7", "8">>, <<"0">>, <<"7">>, <<"-">>}

SizePieces ==
    {<<"1">>, <<"2">>, <<".">>, <<" ">>, <<"o", "z">>, <<"f", "l">>,
     <<"E", "a", "c", "h">>}

DescriptionPieces ==
    {<<"E", "g", "g">>, <<"e", "g">>, <<"G">>,
     <<"b", "r", "e", "a", "d">>, <<"B", "R", "E", "A", "D">>,
     <<"h", "e", "a", "d">>, <<"t", "h">>}

\* The cells of each column: a text, or none (NaN).
CellsOf(function) ==
    {NoStr} \cup
    Texts(CASE function = "pad_location_id" -> LocationIdPieces
            [] function = "classify_product" -> DescriptionPieces
            [] OTHER -> SizePieces,
          MaxPieces)

Functions ==
    {"pad_location_id", "classify_product", "extract_quantity", "extract_uom"}

CallIdle ==
    /\ callee = "none"
    /\ argument = <<>>
    /\ result = <<>>
    /\ call_pc = "idle"

CallStart ==
    /\ callee \in Functions
    /\ argument \in CellsOf(callee)
    /\ result = <<>>
    /\ call_pc = "called"

CallOthersUnchanged ==
    UNCHANGED <<census_vars, product_vars, geo_vars, merge_vars, pipeline_vars,
                token_vars, acquisition_vars, callee, argument>>

\* Line 335: location_id.zfill(8); the float of a missing cell has no
\* zfill (AttributeError).
call_pad_location_id ==
    /\ call_pc = "called"
    /\ callee = "pad_location_id"
    /\ IF argument = NoStr
       THEN call_pc' = "raised" /\ UNCHANGED result
       ELSE call_pc' = "returned" /\ result' = pad_location_id(argument)
    /\ CallOthersUnchanged

\* Lines 343-350; the float of a missing cell has no lower (AttributeError).
call_classify_product ==
    /\ call_pc = "called"
    /\ callee = "classify_product"
    /\ IF argument = NoStr
       THEN call_pc' = "raised" /\ UNCHANGED result
       ELSE call_pc' = "returned" /\ result' = classify_product(argument)
    /\ CallOthersUnchanged

\* Lines 356-358; float() raises ValueError on a malformed token.
call_extract_quantity ==
    /\ call_pc = "called"
    /\ callee = "extract_quantity"
    /\ IF extract_quantity_raises(argument)
       THEN call_pc' = "raised" /\ UNCHANGED result
       ELSE call_pc' = "returned" /\ result' = extract_quantity(argument)
    /\ CallOthersUnchanged

\* Lines 360-362.
call_extract_uom ==
    /\ call_pc = "called"
    /\ callee = "extract_uom"
    /\ call_pc' = "returned"
    /\ result' = extract_uom(argument)
    /\ CallOthersUnchanged

(***************************************************************************)
(* location_cleaning.py                                                    *)
(***************************************************************************)
Store7 == pad_location_id(Text7)
Store8 == pad_location_id(Text8)
LocationIds == {Store7, Store8}

\* The ZIP code the location search was made with, which the raw file
\* records, and what the geocoding service answers for an address.
SearchZip == "Z0"
GeocodedZip(id) == IF id = Store7 THEN "Z1" ELSE "Z2"
GeocodedLat(id) == IF id = Store7 THEN Num(41) ELSE Num(42)
GeocodedLng(id) == IF id = Store7 THEN Num(-81) ELSE Num(-82)

\* Line 234: the full address of a row.
FullAddress(row) == <<row["Address"], row["City"], row["State"], "USA">>

\* A row of kroger_locations.csv.
RawLocationRow(id) ==
    [c \in {"Location ID", "Chain Name", "Address", "City", "State",
            "ZIP Code", "Latitude", "Longitude", "Full Address"} |->
        CASE c = "Location ID" -> id
          [] c = "Chain Name" -> <<"KROGER">>
          [] c = "Address" -> <<id, "Main St">>
          [] c = "City" -> <<"Akron">>
          [] c = "State" -> <<"OH">>
          [] c = "ZIP Code" -> <<SearchZip>>
          [] c = "Latitude" -> GeocodedLat(id)
          [] c = "Longitude" -> GeocodedLng(id)
          [] c = "Full Address" -> <<>>]

IdOf(row) == row["Location ID"]

\* The answers of one gmaps.geocode call: an exception, an empty result,
\* a result with a postal_code component, a result without one.
GeocodeOutcomes == {"exception", "empty", "hit", "hit without postal code"}

\* Lines 251-253: the three cells of a row set from fetch_geocode's result.
WithGeocode(row, lat, lon, zip_code) ==
    [row EXCEPT !["Latitude"] = lat, !["Longitude"] = lon,
                !["ZIP Code"] = zip_code]

\* A row as a finished run leaves it in the cleaned file.
ResolvedRow(id, how) ==
    LET row == [RawLocationRow(id) EXCEPT
                    !["Full Address"] = FullAddress(RawLocationRow(id))]
    IN  CASE how = "hit" ->
                WithGeocode(row, GeocodedLat(id), GeocodedLng(id), <<GeocodedZip(id)>>)
          [] how = "hit without postal code" ->
                WithGeocode(row, GeocodedLat(id), GeocodedLng(id), NoStr)
          [] how = "exhausted" -> WithGeocode(row, NaN, NaN, NoStr)

RawLocationTables ==
    UNION {[1..n -> {RawLocationRow(id) : id \in LocationIds}] : n \in 1..MaxLocs}

\* The cleaned files a run can find: none, or one row per Location ID for
\* some of the IDs.
CleanedLocationTables ==
    {<<>>}
    \cup {<<ResolvedRow(id, how)>> :
            id \in LocationIds,
            how \in {"hit", "hit without postal code", "exhausted"}}
    \cup {<<ResolvedRow(Store7, "hit"), ResolvedRow(Store8, how)>> :
            how \in {"hit", "exhausted"}}

Unbound == [bound |-> FALSE, rows |-> <<>>]
Bound(rows) == [bound |-> TRUE, rows |-> rows]

\* new_locations without the filter on processed_ids.
NewLocationsUnfiltered(locations_df, cleaned) == locations_df

\* Lines 238-239: the raw rows whose Location ID is not in the cleaned file.
NewLocations(locations_df, cleaned) ==
    LET processed_ids == {cleaned[i]["Location ID"] : i \in DOMAIN cleaned}
        Pick[n \in 0..Len(locations_df)] ==
            IF n = 0 THEN <<>>
            ELSE IF locations_df[n]["Location ID"] \notin processed_ids
                 THEN Append(Pick[n - 1], locations_df[n])
                 ELSE Pick[n - 1]
    IN  Pick[Len(locations_df)]

GeoIdle ==
    /\ LOCATIONS_FILE = Absent
    /\ CLEANED_LOCATIONS_FILE = Absent
    /\ geo_pc = "idle"
    /\ cleaned_df = <<>>
    /\ new_locations = Unbound
    /\ position = 0
    /\ attempt = 0
    /\ looked_up = {}
    /\ slept = FALSE
    /\ cleaned_before = Absent
    /\ runs = 0

GeoStart ==
    /\ LOCATIONS_FILE \in {Absent} \cup {File(t) : t \in RawLocationTables}
    /\ CLEANED_LOCATIONS_FILE \in
          {Absent} \cup {File(t) : t \in CleanedLocationTables}
    /\ geo_pc = "start"
    /\ cleaned_df = <<>>
    /\ new_locations = Unbound
    /\ position = 0
    /\ attempt = 0
    /\ looked_up = {}
    /\ slept = FALSE
    /\ cleaned_before = CLEANED_LOCATIONS_FILE
    /\ runs = 1

GeoOthersUnchanged == UNCHANGED <<census_vars, product_vars, merge_vars, call_vars, pipeline_vars, token_vars, acquisition_vars>>

\* Lines 229-231: kroger_locations.csv is missing.
LocationFileNotFound ==
    /\ geo_pc = "start"
    /\ ~LOCATIONS_FILE.exists
    /\ geo_pc' = "returned None"
    /\ UNCHANGED <<LOCATIONS_FILE, CLEANED_LOCATIONS_FILE, cleaned_df,
                   new_locations, position, attempt, looked_up,
                   cleaned_before, runs, slept>>
    /\ GeoOthersUnchanged

\* Lines 233-239: both files exist; new_locations is what is not yet in
\* the cleaned file.
LoadWithCleanedFile ==
    /\ geo_pc = "start"
    /\ LOCATIONS_FILE.exists
    /\ CLEANED_LOCATIONS_FILE.exists
    /\ LET locations_df ==
            [i \in DOMAIN LOCATIONS_FILE.rows |->
                [LOCATIONS_FILE.rows[i] EXCEPT
                    !["Full Address"] = FullAddress(LOCATIONS_FILE.rows[i])]]
       IN  /\ cleaned_df' = CLEANED_LOCATIONS_FILE.rows
           /\ new_locations' =
                 Bound(NewLocations(locations_df, CLEANED_LOCATIONS_FILE.rows))
    /\ geo_pc' = "loaded"
    /\ UNCHANGED <<LOCATIONS_FILE, CLEANED_LOCATIONS_FILE, position, attempt,
                   looked_up, cleaned_before, runs, slept>>
    /\ GeoOthersUnchanged

\* Lines 233-242: there is no cleaned file; the else branch copies the raw
\* table into cleaned_df, blanks its coordinates, and assigns nothing to
\* new_locations.
LoadWithoutCleanedFile ==
    /\ geo_pc = "start"
    /\ LOCATIONS_FILE.exists
    /\ ~CLEANED_LOCATIONS_FILE.exists
    /\ cleaned_df' =
          [i \in DOMAIN LOCATIONS_FILE.rows |->
              [LOCATIONS_FILE.rows[i] EXCEPT
                  !["Full Address"] = FullAddress(LOCATIONS_FILE.rows[i]),
                  !["Latitude"] = NaN, !["Longitude"] = NaN]]
    /\ geo_pc' = "loaded"
    /\ UNCHANGED <<LOCATIONS_FILE, CLEANED_LOCATIONS_FILE, new_locations,
                   position, attempt, looked_up, cleaned_before, runs, slept>>
    /\ GeoOthersUnchanged

\* Line 244 reads new_locations: an UnboundLocalError when the else branch
\* ran, which ends the run before any lookup and any write.
NewLocationsUnbound ==
    /\ geo_pc = "loaded"
    /\ ~new_locations.bound
    /\ geo_pc' = "raised"
    /\ UNCHANGED <<LOCATIONS_FILE, CLEANED_LOCATIONS_FILE, cleaned_df,
                   new_locations, position, attempt, looked_up,
                   cleaned_before, runs, slept>>
    /\ GeoOthersUnchanged

\* Lines 244-246: nothing new; cleaned_df is returned and nothing written.
AllLocationsProcessed ==
    /\ geo_pc = "loaded"
    /\ new_locations.bound
    /\ new_locations.rows = <<>>
    /\ geo_pc' = "returned cleaned_df"
    /\ UNCHANGED <<LOCATIONS_FILE, CLEANED_LOCATIONS_FILE, cleaned_df,
                   new_locations, position, attempt, looked_up,
                   cleaned_before, runs, slept>>
    /\ GeoOthersUnchanged

\* Line 248: the loop over new_locations begins.
BeginGeocoding ==
    /\ geo_pc = "loaded"
    /\ new_locations.bound
    /\ new_locations.rows # <<>>
    /\ geo_pc' = "geocoding"
    /\ position' = 1
    /\ attempt' = 0
    /\ UNCHANGED <<LOCATIONS_FILE, CLEANED_LOCATIONS_FILE, cleaned_df,
                   new_locations, looked_up, cleaned_before, runs, slept>>
    /\ GeoOthersUnchanged

GeocodeAttempts == 3

\* The loop moves to the next row (lines 251-254 done for this one, the
\* sleep of line 254 included).
RowDone(lat, lon, zip_code) ==
    /\ new_locations' =
          Bound([new_locations.rows EXCEPT
                    ![position] = WithGeocode(@, lat, lon, zip_code)])
    /\ position' = position + 1
    /\ attempt' = 0
    /\ slept' = TRUE

\* Lines 211-224: one attempt of fetch_geocode on the current row's full
\* address, with the answer of the service.  Only the except branch
\* sleeps (line 224); an empty result goes straight to the next attempt.
GeocodeAttempt(outcome) ==
    /\ geo_pc = "geocoding"
    /\ position <= Len(new_locations.rows)
    /\ attempt < GeocodeAttempts
    /\ LET row == new_locations.rows[position]
           id == IdOf(row)
       IN  /\ looked_up' = looked_up \cup {<<id, row["Full Address"]>>}
           /\ CASE outcome = "hit" ->
                     RowDone(GeocodedLat(id), GeocodedLng(id), <<GeocodedZip(id)>>)
                [] outcome = "hit without postal code" ->
                     RowDone(GeocodedLat(id), GeocodedLng(id), NoStr)
                [] OTHER ->
                     /\ attempt' = attempt + 1
                     /\ slept' = (outcome = "exception")
                     /\ UNCHANGED <<new_locations, position>>
    /\ UNCHANGED <<LOCATIONS_FILE, CLEANED_LOCATIONS_FILE, geo_pc, cleaned_df,
                   cleaned_before, runs>>
    /\ GeoOthersUnchanged

\* The attempts are used up and the row keeps the ZIP code of the search.
GeocodeExhaustedKeepsZip ==
    /\ geo_pc = "geocoding"
    /\ position <= Len(new_locations.rows)
    /\ attempt = GeocodeAttempts
    /\ RowDone(NaN, NaN, new_locations.rows[position]["ZIP Code"])
    /\ UNCHANGED <<LOCATIONS_FILE, CLEANED_LOCATIONS_FILE, geo_pc, cleaned_df,
                   looked_up, cleaned_before, runs>>
    /\ GeoOthersUnchanged

\* The attempts are used up and the row is dropped from new_locations.
GeocodeExhaustedDropsRecord ==
    /\ geo_pc = "geocoding"
    /\ position <= Len(new_locations.rows)
    /\ attempt = GeocodeAttempts
    /\ new_locations' =
          Bound(SubSeq(new_locations.rows, 1, position - 1)
                \o SubSeq(new_locations.rows, position + 1,
                          Len(new_locations.rows)))
    /\ attempt' = 0
    /\ slept' = TRUE
    /\ UNCHANGED <<LOCATIONS_FILE, CLEANED_LOCATIONS_FILE, geo_pc, cleaned_df,
                   position, looked_up, cleaned_before, runs>>
    /\ GeoOthersUnchanged

\* Line 225: the attempts are used up; fetch_geocode returns three Nones.
GeocodeExhausted ==
    /\ geo_pc = "geocoding"
    /\ position <= Len(new_locations.rows)
    /\ attempt = GeocodeAttempts
    /\ RowDone(NaN, NaN, NoStr)
    /\ UNCHANGED <<LOCATIONS_FILE, CLEANED_LOCATIONS_FILE, geo_pc, cleaned_df,
                   looked_up, cleaned_before, runs>>
    /\ GeoOthersUnchanged

\* Lines 256-259: cleaned_df and new_locations are concatenated and written.
WriteCleanedLocations ==
    /\ geo_pc = "geocoding"
    /\ position > Len(new_locations.rows)
    /\ CLEANED_LOCATIONS_FILE' = File(cleaned_df \o new_locations.rows)
    /\ geo_pc' = "returned updated_df"
    /\ UNCHANGED <<LOCATIONS_FILE, cleaned_df, slept, new_locations, position,
                   attempt, looked_up, cleaned_before, runs>>
    /\ GeoOthersUnchanged

GeoEnded ==
    geo_pc \in {"returned None", "returned cleaned_df", "returned updated_df",
                "raised"}

\* location_cleaning.py is run again, on the files the last run left.
RunLocationCleaningAgain ==
    /\ GeoEnded
    /\ runs < MaxRuns
    /\ runs' = runs + 1
    /\ geo_pc' = "start"
    /\ cleaned_df' = <<>>
    /\ new_locations' = Unbound
    /\ position' = 0
    /\ attempt' = 0
    /\ looked_up' = {}
    /\ slept' = FALSE
    /\ cleaned_before' = CLEANED_LOCATIONS_FILE
    /\ UNCHANGED <<LOCATIONS_FILE, CLEANED_LOCATIONS_FILE>>
    /\ GeoOthersUnchanged

(***************************************************************************)
(* zip_merge.py                                                            *)
(***************************************************************************)
\* A missing dict cell, and a missing standard deviation.
NoDict == [w \in {NoStr} |-> 0]
NullStat == Sqrt(NaN)

\* Whether the cell v of column c is missing (pandas isna), by the type
\* of the column.
IsNullCell(c, v) ==
    CASE c \in {"ZIP Code", "Location ID", "UOM", "Description", "Chain Name",
                "ZCTA5CE20", "geometry"} -> v = NoStr
      [] c \in {"Product ID", "Brand", "Product Category"} -> v = NoValue
      [] c \in {"Date Retrieved", "Most_Recent_Date"} -> v = NaT
      [] c \in {"Store_Count", "Product_Count", "Stock_Observations",
                "Promo_Observations", "Total_Observations",
                "Description List", "Keyword_Lists"} -> FALSE
      [] c \in {"Store_Chain_Distribution", "ZIP_Keyword_Frequency"} -> v = NoDict
      [] c = "Price_Volatility" -> IsNullStat(v)
      [] OTHER -> v = NaN

Column(df, c) == [i \in DOMAIN df |-> df[i][c]]

HasNullKey(row, subset) ==
    \E i \in DOMAIN subset : IsNullCell(subset[i], row[subset[i]])

\* The group keys of DataFrame.groupby(subset): one per distinct key, the
\* rows with a missing key left out (dropna=True).  The keys are listed in
\* the order the table first shows them; pandas sorts them.
GroupKeys(df, subset) ==
    LET Pick[n \in 0..Len(df)] ==
            IF n = 0 THEN <<>>
            ELSE IF \/ HasNullKey(df[n], subset)
                    \/ \E j \in 1..(n - 1) :
                           KeyOf(df[j], subset) = KeyOf(df[n], subset)
                 THEN Pick[n - 1]
                 ELSE Append(Pick[n - 1], KeyOf(df[n], subset))
    IN  Pick[Len(df)]

\* The rows of one group, in the order of the table.
GroupRows(df, subset, key) ==
    LET InGroup(row) == KeyOf(row, subset) = key
    IN  SelectSeq(df, InGroup)

\* The distribution Counter(values) builds: value -> occurrences.
Counter(values) ==
    [v \in Range(values) |-> Cardinality({i \in DOMAIN values : values[i] = v})]

\* Lines 500-505: one row of the location summary of a ZIP code.
ZipLocationGroup(rows) ==
    [c \in {"ZIP Code", "Store_Count", "Store_Chain_Distribution",
            "Avg_Latitude", "Avg_Longitude"} |->
        CASE c = "ZIP Code" -> rows[1]["ZIP Code"]
          [] c = "Store_Count" ->
                Cardinality({i \in DOMAIN rows : rows[i]["Location ID"] # NoStr})
          [] c = "Store_Chain_Distribution" -> Counter(Column(rows, "Chain Name"))
          [] c = "Avg_Latitude" -> mean(Column(rows, "Latitude"))
          [] c = "Avg_Longitude" -> mean(Column(rows, "Longitude"))]

\* The columns of the processed census table, without its key.
CensusCols == KeptCols \cup PctCols

\* The columns the shapefile adds to the census table (lines 480-486).
ShapeCols == {"ZCTA5CE20", "geometry"}

\* left.merge(right, on=on, how="left") for one left row: a row per
\* matching right row, or one row with the right columns missing.
\* missing is the right row of an unmatched key.
LeftJoinRow(lrow, right, on, missing) ==
    LET IsMatch(rrow) == rrow[on] = lrow[on]
        matches == SelectSeq(right, IsMatch)
    IN  IF matches = <<>>
        THEN <<lrow @@ missing>>
        ELSE [i \in DOMAIN matches |-> lrow @@ matches[i]]

RECURSIVE Flatten(_)
Flatten(seqs) == IF seqs = <<>> THEN <<>> ELSE Head(seqs) \o Flatten(Tail(seqs))

LeftJoin(left, right, on, missing) ==
    Flatten([i \in DOMAIN left |-> LeftJoinRow(left[i], right, on, missing)])

\* Lines 479-488: census_df, with the boundary of each ZIP code when the
\* shapefile is there.
CensusWithBoundaries(census_df, shapefile) ==
    IF shapefile.exists
    THEN LeftJoin(census_df, shapefile.rows, "ZIP Code",
                  [c \in ShapeCols |-> NoStr])
    ELSE census_df

\* zip_location_summary without the groupby: a row per location.
ZipLocationSummaryPerLocation(location_df, census_df, columns) ==
    LET rows == [i \in DOMAIN location_df |-> ZipLocationGroup(<<location_df[i]>>)]
    IN  LeftJoin(rows, census_df, "ZIP Code",
                 [c \in columns |-> IF c \in ShapeCols THEN NoStr ELSE NaN])

\* Lines 500-511: zip_location_summary, the location table grouped by ZIP
\* code and left-joined with the census table, whose columns besides the
\* key are columns.
ZipLocationSummary(location_df, census_df, columns) ==
    LET keys == GroupKeys(location_df, <<"ZIP Code">>)
        grouped == [k \in DOMAIN keys |->
                       ZipLocationGroup(GroupRows(location_df, <<"ZIP Code">>, keys[k]))]
    IN  LeftJoin(grouped, census_df, "ZIP Code",
                 [c \in columns |-> IF c \in ShapeCols THEN NoStr ELSE NaN])

\* str.split(): the maximal runs without a blank.
RECURSIVE split(_)
split(s) ==
    IF s = <<>> THEN <<>>
    ELSE IF s[1] = " " THEN split(Tail(s))
    ELSE LET blanks == {i \in DOMAIN s : s[i] = " "}
             stop == IF blanks = {} THEN Len(s) + 1
                     ELSE CHOOSE i \in blanks : \A j \in blanks : i <= j
         IN  <<SubSeq(s, 1, stop - 1)>> \o split(SubSeq(s, stop, Len(s)))

IsPositive(x) == FLt(Num(0), x)

\* The columns product_df is grouped by (line 524).
ProductGroupBy ==
    <<"Product ID", "Location ID", "Quantity", "UOM", "Brand",
      "Product Category", "Description">>

\* Most_Recent_Date: the max of the dates that are not missing.
MostRecentDate(rows) ==
    LET dates == {rows[i]["Date Retrieved"] : i \in DOMAIN rows} \ {NaT}
    IN  IF dates = {} THEN NaT ELSE CHOOSE d \in dates : \A e \in dates : e <= d

\* Line 526: x.iloc[-1] of the group's Price per Unit, the last row of the
\* group in the order of the table.
MostRecentPrice(rows) == rows[Len(rows)]["Price per Unit"]

\* Line 530: the rows of the group with Promo Price > 0.
PromoObservations(rows) ==
    Cardinality({i \in DOMAIN rows : IsPositive(rows[i]["Promo Price"])})

\* Line 531: count() of Date Retrieved, the rows whose date is not missing.
TotalObservations(rows) ==
    Cardinality({i \in DOMAIN rows : rows[i]["Date Retrieved"] # NaT})

\* Lines 524-543: the row of product_grouped_df for one group.
ProductAggregate(rows) ==
    LET first == rows[1]
        ppu == Column(rows, "Price per Unit")
        promo_ppu == Column(rows, "Promo Price per Unit")
    IN  [c \in Range(ProductGroupBy) |-> first[c]]
        @@ [c \in {"Most_Recent_Date"} |-> MostRecentDate(rows)]
        @@ [c \in {"Most_Recent_Price"} |-> fillna0(MostRecentPrice(rows))]
        @@ [c \in {"Avg_Price"} |-> mean(ppu)]
        @@ [c \in {"Promo_Price_Avg"} |->
                fillna0(mean(SelectSeq(promo_ppu, IsPositive)))]
        @@ [c \in {"Price_Volatility"} |-> Sqrt(fillna0(var(ppu)))]
        @@ [c \in {"Promo_Observations"} |-> PromoObservations(rows)]
        @@ [c \in {"Total_Observations"} |-> TotalObservations(rows)]
        @@ [c \in {"Promo_Frequency"} |->
                round2(fillna0(FDiv(Num(PromoObservations(rows)),
                                    Num(TotalObservations(rows)))))]
        @@ [c \in {"Description List"} |-> split(lower(first["Description"]))]

\* Lines 524-543: product_grouped_df.
ProductGroupedDf(product_df) ==
    LET keys == GroupKeys(product_df, ProductGroupBy)
    IN  [k \in DOMAIN keys |->
            ProductAggregate(GroupRows(product_df, ProductGroupBy, keys[k]))]

IntMax(xs) == CHOOSE m \in Range(xs) : \A x \in Range(xs) : x <= m

\* Lines 547-556: the row of store_product_summary for one group.
StoreAggregate(rows) ==
    LET avg == Column(rows, "Avg_Price")
    IN  [c \in {"Location ID", "Product Category", "UOM"} |-> rows[1][c]]
        @@ [c \in {"Product_Count"} |->
                Cardinality({i \in DOMAIN rows : rows[i]["Product ID"] # NoValue})]
        @@ [c \in {"Stock_Observations"} |-> IntMax(Column(rows, "Total_Observations"))]
        @@ [c \in {"Avg_Price"} |-> mean(avg)]
        @@ [c \in {"Min_Price"} |-> min(avg)]
        @@ [c \in {"Max_Price"} |-> max(avg)]
        @@ [c \in {"Median_Price"} |-> median(avg)]
        @@ [c \in {"Price_Volatility"} |-> MeanOf(Column(rows, "Price_Volatility"))]
        @@ [c \in {"Promo_Frequency"} |-> mean(Column(rows, "Promo_Frequency"))]

\* Python's None.
None == NoStr

\* clean_keyword with "eggs" left out of the excluded words.
clean_keyword_keeps_eggs(word) ==
    LET w == lower(SelectSeq(word, IsAlpha))
    IN  IF w \in {<<"e", "g", "g">>, <<"b", "r", "e", "a", "d">>}
        THEN None ELSE w

\* Lines 558-562: the letters of the word in lower case, None for the
\* words of the categories.
clean_keyword(word) ==
    LET w == lower(SelectSeq(word, IsAlpha))
    IN  IF w \in {<<"e", "g", "g">>, <<"e", "g", "g", "s">>,
                  <<"b", "r", "e", "a", "d">>}
        THEN None ELSE w

\* Truth of a clean_keyword result: None and "" are false.
IsKeyword(word) == clean_keyword(word) \notin {None, <<>>}

\* Lines 566-572.
keyword_list(description_lists) ==
    LET category_list ==
            Flatten([i \in DOMAIN description_lists |->
                        LET kept == SelectSeq(description_lists[i], IsKeyword)
                        IN  [j \in DOMAIN kept |-> clean_keyword(kept[j])]])
    IN  IF category_list # <<>> THEN category_list
        ELSE << <<"o", "t", "h", "e", "r">> >>

\* Lines 547-586: store_product_summary, with the keyword list of the
\* store and category of each row and the ZIP code of the store.
StoreProductSummary(grouped_df, location_df) ==
    LET by == <<"Location ID", "Product Category", "UOM">>
        keys == GroupKeys(grouped_df, by)
        Keywords(key) ==
            keyword_list(Column(GroupRows(grouped_df,
                                          <<"Location ID", "Product Category">>,
                                          <<key[1], key[2]>>),
                                "Description List"))
        summary == [k \in DOMAIN keys |->
                       StoreAggregate(GroupRows(grouped_df, by, keys[k]))
                       @@ [c \in {"Keyword_Lists"} |-> Keywords(keys[k])]]
        loc_zip == [i \in DOMAIN location_df |->
                       [c \in {"Location ID", "ZIP Code"} |-> location_df[i][c]]]
    IN  LeftJoin(summary, loc_zip, "Location ID", [c \in {"ZIP Code"} |-> NoStr])

\* Lines 589-597: the row of zip_product_summary for one group.
ZipAggregate(rows) ==
    [c \in {"ZIP Code", "Product Category"} |-> rows[1][c]]
    @@ [c \in {"Avg_Price"} |-> mean(Column(rows, "Avg_Price"))]
    @@ [c \in {"Min_Price"} |-> min(Column(rows, "Min_Price"))]
    @@ [c \in {"Max_Price"} |-> max(Column(rows, "Max_Price"))]
    @@ [c \in {"Median_Price"} |-> mean(Column(rows, "Median_Price"))]
    @@ [c \in {"Price_Volatility"} |-> MeanOf(Column(rows, "Price_Volatility"))]
    @@ [c \in {"Promo_Frequency"} |-> mean(Column(rows, "Promo_Frequency"))]
    @@ [c \in {"Avg_Product_Count"} |->
            mean([i \in DOMAIN rows |-> Num(rows[i]["Product_Count"])])]

\* Lines 589-639: zip_product_complete, the store summary grouped by ZIP
\* code and category, with the keyword frequencies of each group.
ZipProductComplete(store_summary) ==
    LET by == <<"ZIP Code", "Product Category">>
        keys == GroupKeys(store_summary, by)
    IN  [k \in DOMAIN keys |->
            LET rows == GroupRows(store_summary, by, keys[k])
            IN  ZipAggregate(rows)
                @@ [c \in {"ZIP_Keyword_Frequency"} |->
                        Counter(Flatten(Column(rows, "Keyword_Lists")))]]

\* The columns zip_product_complete brings to the final join.
ProductSummaryCols ==
    {"Product Category", "Avg_Price", "Min_Price", "Max_Price", "Median_Price",
     "Price_Volatility", "Promo_Frequency", "Avg_Product_Count",
     "ZIP_Keyword_Frequency"}

\* Lines 642-645: zip_product_location_complete.
ZipProductLocationComplete(location_summary, product_complete) ==
    LeftJoin(location_summary, product_complete, "ZIP Code",
             [c \in ProductSummaryCols |->
                 CASE c = "Product Category" -> NoValue
                   [] c = "Price_Volatility" -> NullStat
                   [] c = "ZIP_Keyword_Frequency" -> NoDict
                   [] OTHER -> NaN])

HasNull(row) == \E c \in DOMAIN row : IsNullCell(c, row[c])

\* DataFrame.dropna() that drops nothing.
dropna_keeps_all(df) == df

\* Line 648: DataFrame.dropna(), the rows without a missing cell.
dropna(df) ==
    LET Complete(row) == ~HasNull(row)
    IN  SelectSeq(df, Complete)

(***************************************************************************)
(* The files the merge finds.                                              *)
(***************************************************************************)
ZipCodes == {GeocodedZip(id) : id \in LocationIds}

\* A row of the processed census file, and a row of the shapefile.
MergeCensusRow(zip) ==
    [c \in {"ZIP Code"} |-> <<zip>>]
    @@ ProcessCensusRow([c \in RawCensusCols |-> Num(1)])

ShapeRow(zip) ==
    [c \in {"ZIP Code", "ZCTA5CE20"} |-> <<zip>>]
    @@ [c \in {"geometry"} |-> <<"POLYGON", zip>>]

\* The ZIP codes a census file or a shapefile covers: one of them, all of
\* them, or one of them in two rows.
ZipCoverages ==
    {<<z>> : z \in ZipCodes}
    \cup {<<GeocodedZip(Store7), GeocodedZip(Store8)>>,
          <<GeocodedZip(Store7), GeocodedZip(Store7)>>}

MergeCensusTables == {[i \in DOMAIN zs |-> MergeCensusRow(zs[i])] : zs \in ZipCoverages}
ShapeTables == {[i \in DOMAIN zs |-> ShapeRow(zs[i])] : zs \in ZipCoverages}

\* The cleaned location files: rows as a finished run of
\* location_cleaning.py leaves them.
MergeLocationTables ==
    UNION {[1..n -> {ResolvedRow(id, how) :
                        id \in LocationIds,
                        how \in {"hit", "hit without postal code", "exhausted"}}] :
           n \in 1..MaxLocs}

\* An observation of the cleaned product file: the product, the store, the
\* date and the two prices.
BaseObservation == <<"P1", Text7, 1, 4, 0>>

\* The observations that differ from the base one in at most one column,
\* or in the promo price and one other column.
Observations ==
    {o \in (DOMAIN Catalogue) \X {Text7, Text8} \X ({NaT} \cup 1..MaxDate)
           \X {4, 2} \X {0, 2} :
        LET differing == {i \in 1..5 : o[i] # BaseObservation[i]}
        IN  Cardinality(differing \ {5}) <= 1}

\* The row of the cleaned file for an observation, as clean_product_data
\* makes it.
CleanedProductRow(o) ==
    CleanRow(RawProductRow(<<o[1], o[2], o[3]>>,
                           <<TextHIGH, PriceCell("num", Num(o[4])),
                             PriceCell("num", Num(o[5]))>>))

\* The cleaned product files: no two rows with the same product, store
\* and date.
CleanedProductTables ==
    {[i \in DOMAIN os |-> CleanedProductRow(os[i])] :
        os \in {t \in UNION {[1..n -> Observations] : n \in 1..MaxObs} :
                  \A i, j \in DOMAIN t :
                      i # j => <<t[i][1], t[i][2], t[i][3]>>
                               # <<t[j][1], t[j][2], t[j][3]>>}}

DefaultCensus == File([i \in 1..2 |->
                         MergeCensusRow(GeocodedZip(<<Store7, Store8>>[i]))])
DefaultShape == File([i \in 1..2 |-> ShapeRow(GeocodedZip(<<Store7, Store8>>[i]))])
DefaultLocations == File(<<ResolvedRow(Store7, "hit"), ResolvedRow(Store8, "hit")>>)
DefaultProducts == File(<<CleanedProductRow(BaseObservation)>>)

\* The files at the start of zip_merge.py: any product file with the
\* other files whole, or any other files with a one-row product file, or
\* one of the three required files missing.
MergeInputs ==
    {<<DefaultCensus, DefaultShape, DefaultLocations, File(t)>> :
        t \in CleanedProductTables}
    \cup {<<File(c), sh, File(l), DefaultProducts>> :
            c \in MergeCensusTables,
            sh \in {Absent} \cup {File(t) : t \in ShapeTables},
            l \in MergeLocationTables}
    \cup {<<Absent, DefaultShape, DefaultLocations, DefaultProducts>>,
          <<DefaultCensus, DefaultShape, Absent, DefaultProducts>>,
          <<DefaultCensus, DefaultShape, DefaultLocations, Absent>>}

MergeIdle ==
    /\ SHAPEFILE = Absent
    /\ FINAL_DATASET = Absent
    /\ merge_pc = "idle"
    /\ zip_location_summary = <<>>
    /\ product_grouped_df = <<>>
    /\ store_product_summary = <<>>
    /\ zip_product_complete = <<>>

MergeStart ==
    /\ \E inputs \in MergeInputs :
          /\ PROCESSED_CENSUS_FILE = inputs[1]
          /\ SHAPEFILE = inputs[2]
          /\ CLEANED_LOCATIONS_FILE = inputs[3]
          /\ CLEANED_PRODUCTS_FILE = inputs[4]
    /\ CENSUS_FILE = Absent
    /\ census_pc = "idle"
    /\ PRODUCTS_FILE = Absent
    /\ product_pc = "idle"
    /\ LOCATIONS_FILE = Absent
    /\ geo_pc = "idle"
    /\ cleaned_df = <<>>
    /\ new_locations = Unbound
    /\ position = 0
    /\ attempt = 0
    /\ looked_up = {}
    /\ slept = FALSE
    /\ cleaned_before = Absent
    /\ runs = 0
    /\ FINAL_DATASET = Absent
    /\ merge_pc = "start"
    /\ zip_location_summary = <<>>
    /\ product_grouped_df = <<>>
    /\ store_product_summary = <<>>
    /\ zip_product_complete = <<>>

MergeFilesUnchanged ==
    UNCHANGED <<census_vars, product_vars, geo_vars, call_vars, pipeline_vars, token_vars, acquisition_vars,
                SHAPEFILE>>

\* Lines 465-471: processed_census_data.csv is missing, so census_df is
\* not bound at line 471 and the script stops on a NameError.
CensusDataNotFound ==
    /\ merge_pc = "start"
    /\ ~PROCESSED_CENSUS_FILE.exists
    /\ merge_pc' = "raised"
    /\ UNCHANGED <<FINAL_DATASET, zip_location_summary, product_grouped_df,
                   store_product_summary, zip_product_complete>>
    /\ MergeFilesUnchanged

\* Lines 490-500: cleaned_location_data.csv is missing, so location_df is
\* not bound at line 500.
LocationDataNotFound ==
    /\ merge_pc = "start"
    /\ PROCESSED_CENSUS_FILE.exists
    /\ ~CLEANED_LOCATIONS_FILE.exists
    /\ merge_pc' = "raised"
    /\ UNCHANGED <<FINAL_DATASET, zip_location_summary, product_grouped_df,
                   store_product_summary, zip_product_complete>>
    /\ MergeFilesUnchanged

\* Lines 464-511: the census table, with the boundaries, joined to the
\* location summary.
SummariseLocations ==
    /\ merge_pc = "start"
    /\ PROCESSED_CENSUS_FILE.exists
    /\ CLEANED_LOCATIONS_FILE.exists
    /\ zip_location_summary' =
          ZipLocationSummary(
              CLEANED_LOCATIONS_FILE.rows,
              CensusWithBoundaries(PROCESSED_CENSUS_FILE.rows, SHAPEFILE),
              CensusCols \cup (IF SHAPEFILE.exists THEN ShapeCols ELSE {}))
    /\ merge_pc' = "locations summarised"
    /\ UNCHANGED <<FINAL_DATASET, product_grouped_df, store_product_summary,
                   zip_product_complete>>
    /\ MergeFilesUnchanged

\* Lines 513-519: cleaned_product_data.csv is missing, so product_df is
\* not bound at line 519.
ProductDataNotFound ==
    /\ merge_pc = "locations summarised"
    /\ ~CLEANED_PRODUCTS_FILE.exists
    /\ merge_pc' = "raised"
    /\ UNCHANGED <<FINAL_DATASET, zip_location_summary, product_grouped_df,
                   store_product_summary, zip_product_complete>>
    /\ MergeFilesUnchanged

\* Lines 513-543.
AggregateProducts ==
    /\ merge_pc = "locations summarised"
    /\ CLEANED_PRODUCTS_FILE.exists
    /\ product_grouped_df' = ProductGroupedDf(CLEANED_PRODUCTS_FILE.rows)
    /\ merge_pc' = "products grouped"
    /\ UNCHANGED <<FINAL_DATASET, zip_location_summary, store_product_summary,
                   zip_product_complete>>
    /\ MergeFilesUnchanged

\* Lines 547-586.
SummariseStores ==
    /\ merge_pc = "products grouped"
    /\ store_product_summary' =
          StoreProductSummary(product_grouped_df, CLEANED_LOCATIONS_FILE.rows)
    /\ merge_pc' = "stores summarised"
    /\ UNCHANGED <<FINAL_DATASET, zip_location_summary, product_grouped_df,
                   zip_product_complete>>
    /\ MergeFilesUnchanged

\* Lines 589-636 when no group is left: zip_keyword_summary is
\* pd.DataFrame([]), without the columns of the merge at line 632, which
\* stops the script on a KeyError.
KeywordMergeRaises ==
    /\ merge_pc = "stores summarised"
    /\ ZipProductComplete(store_product_summary) = <<>>
    /\ merge_pc' = "raised"
    /\ UNCHANGED <<FINAL_DATASET, zip_location_summary, product_grouped_df,
                   store_product_summary, zip_product_complete>>
    /\ MergeFilesUnchanged

\* Lines 589-639.
SummariseZips ==
    /\ merge_pc = "stores summarised"
    /\ ZipProductComplete(store_product_summary) # <<>>
    /\ zip_product_complete' = ZipProductComplete(store_product_summary)
    /\ merge_pc' = "zips summarised"
    /\ UNCHANGED <<FINAL_DATASET, zip_location_summary, product_grouped_df,
                   store_product_summary>>
    /\ MergeFilesUnchanged

\* Lines 642-655: the final join, the drop of the incomplete rows and the
\* write of final_dataset.csv.
WriteFinalDataset ==
    /\ merge_pc = "zips summarised"
    /\ FINAL_DATASET' =
          File(dropna(ZipProductLocationComplete(zip_location_summary,
                                                 zip_product_complete)))
    /\ merge_pc' = "done"
    /\ UNCHANGED <<zip_location_summary, product_grouped_df,
                   store_product_summary, zip_product_complete>>
    /\ MergeFilesUnchanged

(***************************************************************************)
(* The orchestrator (lines 697-727).  Each script runs as a subprocess:    *)
(* what the orchestrator sees of it is its exit status and the files it    *)
(* leaves, so a script is a choice of a status and of whether its output   *)
(* file was written.                                                       *)
(***************************************************************************)
Scripts ==
    <<"census_cleaning.py", "product_cleaning.py", "location_cleaning.py",
      "merge_final.py">>

\* The exit statuses of a python subprocess: 0, 1 after an uncaught
\* exception, 2 when the script cannot be opened.
ExitStatuses == {0, 1, 2}

\* exit_status while the orchestrator runs.
NoStatus == -1

PipelineIdle ==
    /\ pipeline_pc = "idle"
    /\ script = 0
    /\ started = <<>>
    /\ statuses = <<>>
    /\ exit_status = NoStatus
    /\ message = "none"

\* The data directory when the orchestrator starts: any of the output
\* files may be there from an earlier run.
PipelineStart ==
    /\ CENSUS_FILE = Absent
    /\ PRODUCTS_FILE = Absent
    /\ LOCATIONS_FILE = Absent
    /\ SHAPEFILE = Absent
    /\ PROCESSED_CENSUS_FILE \in {Absent, DefaultCensus}
    /\ CLEANED_PRODUCTS_FILE \in {Absent, DefaultProducts}
    /\ CLEANED_LOCATIONS_FILE \in {Absent, DefaultLocations}
    /\ FINAL_DATASET \in {Absent, File(<<>>)}
    /\ census_pc = "idle"
    /\ product_pc = "idle"
    /\ geo_pc = "idle"
    /\ cleaned_df = <<>>
    /\ new_locations = Unbound
    /\ position = 0
    /\ attempt = 0
    /\ looked_up = {}
    /\ slept = FALSE
    /\ cleaned_before = Absent
    /\ runs = 0
    /\ merge_pc = "idle"
    /\ zip_location_summary = <<>>
    /\ product_grouped_df = <<>>
    /\ store_product_summary = <<>>
    /\ zip_product_complete = <<>>
    /\ pipeline_pc = "run_script"
    /\ script = 1
    /\ started = <<>>
    /\ statuses = <<>>
    /\ exit_status = NoStatus
    /\ message = "none"

\* What a run of the orchestrator leaves alone: the input files and the
\* state of the stages run on their own.
PipelineOthersUnchanged ==
    UNCHANGED <<CENSUS_FILE, PRODUCTS_FILE, LOCATIONS_FILE, SHAPEFILE,
                census_pc, product_pc, geo_pc, cleaned_df, new_locations,
                position, attempt, looked_up, slept, cleaned_before, runs,
                merge_pc, zip_location_summary, product_grouped_df,
                store_product_summary, zip_product_complete, call_vars,
                token_vars, acquisition_vars>>

OutputFilesUnchanged ==
    UNCHANGED <<PROCESSED_CENSUS_FILE, CLEANED_PRODUCTS_FILE,
                CLEANED_LOCATIONS_FILE, FINAL_DATASET>>

\* The script with index k exits having written its output file.
OutputWritten(k) ==
    /\ PROCESSED_CENSUS_FILE' = IF k = 1 THEN DefaultCensus ELSE PROCESSED_CENSUS_FILE
    /\ CLEANED_PRODUCTS_FILE' = IF k = 2 THEN DefaultProducts ELSE CLEANED_PRODUCTS_FILE
    /\ CLEANED_LOCATIONS_FILE' =
          IF k = 3 THEN DefaultLocations ELSE CLEANED_LOCATIONS_FILE
    /\ FINAL_DATASET' = IF k = 4 THEN File(<<>>) ELSE FINAL_DATASET

\* Line 700: subprocess.run(["python", script_name], check=True) starts
\* the script.
StartScript ==
    /\ pipeline_pc = "run_script"
    /\ started' = Append(started, Scripts[script])
    /\ pipeline_pc' = "subprocess"
    /\ UNCHANGED <<script, statuses, exit_status, message>>
    /\ OutputFilesUnchanged
    /\ PipelineOthersUnchanged

\* A failing script whose failure lets the orchestrator go on with the
\* next script.
ScriptFailsPipelineGoesOn(status) ==
    /\ pipeline_pc = "subprocess"
    /\ status # 0
    /\ statuses' = Append(statuses, status)
    /\ IF script < Len(Scripts)
       THEN script' = script + 1 /\ pipeline_pc' = "run_script"
       ELSE script' = script /\ pipeline_pc' = "check"
    /\ UNCHANGED <<started, exit_status, message>>
    /\ OutputFilesUnchanged
    /\ PipelineOthersUnchanged

\* Lines 700-703: the script exits with a status that is not 0;
\* check=True raises CalledProcessError, run_script prints the error and
\* calls exit(1).
ScriptFails(status) ==
    /\ pipeline_pc = "subprocess"
    /\ status # 0
    /\ statuses' = Append(statuses, status)
    /\ pipeline_pc' = "exited"
    /\ exit_status' = 1
    /\ UNCHANGED <<script, started, message>>
    /\ OutputFilesUnchanged
    /\ PipelineOthersUnchanged

\* Lines 700, 709-720: the script exits with status 0, with or without
\* its output file written; run_script returns and the next statement of
\* the main block runs.
ScriptSucceeds(written) ==
    /\ pipeline_pc = "subprocess"
    /\ statuses' = Append(statuses, 0)
    /\ IF written THEN OutputWritten(script) ELSE OutputFilesUnchanged
    /\ IF script < Len(Scripts)
       THEN script' = script + 1 /\ pipeline_pc' = "run_script"
       ELSE script' = script /\ pipeline_pc' = "check"
    /\ UNCHANGED <<started, exit_status, message>>
    /\ PipelineOthersUnchanged

\* Lines 722-727: the check of final_dataset.csv; the main block ends.
CheckFinalDataset ==
    /\ pipeline_pc = "check"
    /\ message' = IF FINAL_DATASET.exists THEN "generated successfully"
                  ELSE "not found"
    /\ pipeline_pc' = "exited"
    /\ exit_status' = 0
    /\ UNCHANGED <<script, started, statuses>>
    /\ OutputFilesUnchanged
    /\ PipelineOthersUnchanged

(***************************************************************************)
(* location_&_census_acquisition.ipynb: the token of the Location API.     *)
(* os.environ and the env file are functions from keys to values; a token  *)
(* is named by the number of the call that obtained it; an expiration is  *)
(* a text in the format of str(datetime) or of datetime.isoformat().       *)
(***************************************************************************)
\* os.getenv(key), get_key(file, key): None when the key is not set.
Unset == <<"<unset>">>
getenv(env, key) == IF key \in DOMAIN env THEN env[key] ELSE Unset

NoKeys == [k \in {} |-> Unset]

\* env with env[key] = value (os.environ[key] = value, set_key).
set_key(env, key, value) ==
    [k \in DOMAIN env \cup {key} |-> IF k = key THEN value ELSE env[k]]

\* str(datetime) and datetime.isoformat() of the time t, and
\* datetime.fromisoformat, which reads both.
str_datetime(t) == <<"YYYY-MM-DD HH:MM:SS", t>>
isoformat(t) == <<"YYYY-MM-DDTHH:MM:SS", t>>
fromisoformat(text) == text[2]

\* The access_token of the answer to the n-th call.
Token(n) == <<"token", n>>

\* Line 396: expires_in of the token response, in ticks.
TokenLifetime == 2

\* The answers of the token endpoint.
TokenReplies == {"200", "401"}

\* Line 379: not token or datetime.now() >= datetime.fromisoformat(expiration),
\* for a token that is set; fromisoformat(None) raises TypeError.
ExpirationRaises(env) ==
    /\ getenv(env, "LOCATION_ACCESS_TOKEN") \notin {Unset, <<>>}
    /\ getenv(env, "LOCATION_TOKEN_EXPIRATION") = Unset

NeedsNewToken(env, t) ==
    \/ getenv(env, "LOCATION_ACCESS_TOKEN") \in {Unset, <<>>}
    \/ t >= fromisoformat(getenv(env, "LOCATION_TOKEN_EXPIRATION"))

\* Lines 373-411: get_kroger_location_token() called at time t with the
\* environment env and the env file file, fresh being the token the
\* endpoint gives when it answers reply = "200": the environment and the
\* file it leaves, what it returns, whether it posted, whether it raised.
get_kroger_location_token(env, file, t, reply, fresh) ==
    IF ExpirationRaises(env)
    THEN [environ |-> env, ENV_FILE |-> file, token |-> Unset,
          posted |-> FALSE, raised |-> TRUE]
    ELSE IF ~NeedsNewToken(env, t)
    THEN [environ |-> env, ENV_FILE |-> file,
          token |-> getenv(env, "LOCATION_ACCESS_TOKEN"),
          posted |-> FALSE, raised |-> FALSE]
    ELSE IF reply = "200"
    THEN [environ |->
              set_key(set_key(env, "LOCATION_ACCESS_TOKEN", fresh),
                      "LOCATION_TOKEN_EXPIRATION", str_datetime(t + TokenLifetime)),
          ENV_FILE |->
              set_key(set_key(file, "LOCATION_ACCESS_TOKEN", fresh),
                      "LOCATION_ACCESS_TOKEN_EXPIRATION",
                      isoformat(t + TokenLifetime)),
          token |-> fresh, posted |-> TRUE, raised |-> FALSE]
    ELSE [environ |-> env, ENV_FILE |-> file,
          token |-> getenv(env, "LOCATION_ACCESS_TOKEN"),
          posted |-> TRUE, raised |-> FALSE]

\* Line 294: load_dotenv() in a new process.  It reads the file named
\* .env, which is the env file or not; the variables of the process come
\* from that file only.
load_dotenv(file, is_env_file) == IF is_env_file THEN file ELSE NoKeys

NoCall == [environ |-> NoKeys, ENV_FILE |-> NoKeys, now |-> 0]

TokenIdle ==
    /\ environ = NoKeys
    /\ ENV_FILE = NoKeys
    /\ now = 0
    /\ token_pc = "idle"
    /\ token_result = Unset
    /\ posted = FALSE
    /\ token_call = NoCall
    /\ env_loaded = FALSE
    /\ calls = 0

\* A process that has just loaded its environment, with an env file that
\* holds no token yet.
TokenStart ==
    /\ environ = NoKeys
    /\ ENV_FILE = NoKeys
    /\ now = 0
    /\ token_pc = "ready"
    /\ token_result = Unset
    /\ posted = FALSE
    /\ token_call = NoCall
    /\ env_loaded \in BOOLEAN
    /\ calls = 0

TokenOthersUnchanged ==
    UNCHANGED <<census_vars, product_vars, geo_vars, merge_vars, call_vars,
                pipeline_vars, acquisition_vars>>

\* Lines 373-411: what a call of get_kroger_location_token() does.
TokenCall(reply) ==
    /\ LET call == get_kroger_location_token(environ, ENV_FILE, now, reply, Token(calls + 1))
       IN  /\ environ' = call.environ
           /\ ENV_FILE' = call.ENV_FILE
           /\ token_result' = call.token
           /\ posted' = call.posted
           /\ token_pc' = IF call.raised THEN "raised" ELSE "returned"
    /\ token_call' = [environ |-> environ, ENV_FILE |-> ENV_FILE, now |-> now]
    /\ calls' = calls + 1
    /\ UNCHANGED <<now, env_loaded>>

\* Lines 373-411: a call of get_kroger_location_token().
call_get_kroger_location_token(reply) ==
    /\ token_pc # "idle"
    /\ calls < MaxCalls
    /\ TokenCall(reply)
    /\ TokenOthersUnchanged

\* Time passes.
Tick ==
    /\ token_pc # "idle"
    /\ now < MaxTime
    /\ now' = now + 1
    /\ UNCHANGED <<environ, ENV_FILE, token_pc, token_result, posted,
                   token_call, env_loaded, calls>>
    /\ TokenOthersUnchanged

\* The notebook is run in a new process: line 294 loads the environment.
RestartNotebook(is_env_file) ==
    /\ token_pc # "idle"
    /\ environ' = load_dotenv(ENV_FILE, is_env_file)
    /\ env_loaded' = is_env_file
    /\ token_pc' = "ready"
    /\ token_result' = Unset
    /\ posted' = FALSE
    /\ token_call' = NoCall
    /\ UNCHANGED <<ENV_FILE, now, calls>>
    /\ TokenOthersUnchanged

(***************************************************************************)
(* location_&_census_acquisition.ipynb: the loop that searches the stores  *)
(* near the ZIP codes of the census file (lines 512-610).  A run is one    *)
(* execution of the notebook in a new process.                             *)
(***************************************************************************)
\* Line 515: the ZIP codes of cleaned_census_data.csv, in file order.
zip_codes == <<"Z1", "Z2", "Z3", "Z4">>

\* The largest number of runs of the acquisition loop.
MaxAcquisitionRuns == 3

\* Line 536: zip_codes[::3].
EveryThird(list) ==
    LET Pick[n \in 0..Len(list)] ==
            IF n = 0 THEN <<>>
            ELSE IF (n - 1) % 3 = 0 THEN Append(Pick[n - 1], list[n])
                 ELSE Pick[n - 1]
    IN  Pick[Len(list)]

\* Line 536: the elements of list that are not in processed.
NotProcessed(list, processed) ==
    LET Pick[n \in 0..Len(list)] ==
            IF n = 0 THEN <<>>
            ELSE IF list[n] \notin processed THEN Append(Pick[n - 1], list[n])
                 ELSE Pick[n - 1]
    IN  Pick[Len(list)]

\* Line 539: the size of the batch of one run.
BatchSize == 2000

FirstBatch(list) == SubSeq(list, 1, IF Len(list) < BatchSize THEN Len(list) ELSE BatchSize)

\* The locationId of three stores as the Location API gives them, the
\* first with a leading zero.
StoreA == <<"0", "1">>
StoreB == <<"2", "2">>
StoreC == <<"3", "3">>

\* location_results["data"] for a search near zip_code that found stores.
StoresNear(zip_code) ==
    IF zip_code = "Z1" THEN <<StoreA, StoreB>> ELSE <<StoreB, StoreC>>

\* Lines 576-585: the record appended for a store.
StoreRecord(location_id, zip_code) ==
    [c \in {"Location ID", "ZIP Code"} |->
        IF c = "Location ID" THEN location_id ELSE zip_code]

\* Line 549: pd.read_csv(stores_file, dtype={"ZIP Code": str}) reads the
\* Location ID column, all digits, as integers; line 551 and to_csv turn
\* the integer into text again, without the leading zeros.
int_text(digits) ==
    LET Strip[n \in 1..Len(digits)] ==
            IF n = Len(digits) \/ digits[n] # "0" THEN SubSeq(digits, n, Len(digits))
            ELSE Strip[n + 1]
    IN  Strip[1]

read_stores(rows) ==
    [i \in DOMAIN rows |-> [rows[i] EXCEPT !["Location ID"] = int_text(@)]]

\* Lines 573-586: the records appended for the stores of data that are not
\* in seen, and the Location IDs seen after them.
AppendUnseen(records, seen, data, zip_code) ==
    LET Step[n \in 0..Len(data)] ==
            IF n = 0 THEN [stores |-> records, ids |-> seen]
            ELSE IF data[n] \notin Step[n - 1].ids
                 THEN [stores |-> Append(Step[n - 1].stores, StoreRecord(data[n], zip_code)),
                       ids |-> Step[n - 1].ids \cup {data[n]}]
                 ELSE Step[n - 1]
    IN  Step[Len(data)]

\* What search_kroger_locations returns (lines 432-438): a response with
\* stores, a response without "data", None after a request error.
SearchOutcomes == {"data", "no data", "request error"}

NeverSearched == [z \in Range(zip_codes) |-> "never"]

AcquisitionIdle ==
    /\ processed_zip_file = Absent
    /\ stores_file = Absent
    /\ acq_pc = "idle"
    /\ processed_zip_codes = {}
    /\ condensed_zip_list = <<>>
    /\ stores = <<>>
    /\ existing_loc_ids = {}
    /\ zip_index = 0
    /\ queried = {}
    /\ last_search = NeverSearched
    /\ processed_before = Absent
    /\ stores_before = Absent
    /\ acq_runs = 0

\* The first run: neither processed_zips.txt nor kroger_locations.csv
\* exists yet.
AcquisitionStart ==
    /\ processed_zip_file = Absent
    /\ stores_file = Absent
    /\ acq_pc = "start"
    /\ processed_zip_codes = {}
    /\ condensed_zip_list = <<>>
    /\ stores = <<>>
    /\ existing_loc_ids = {}
    /\ zip_index = 0
    /\ queried = {}
    /\ last_search = NeverSearched
    /\ processed_before = Absent
    /\ stores_before = Absent
    /\ acq_runs = 1

AcquisitionOthersUnchanged ==
    UNCHANGED <<census_vars, product_vars, geo_vars, merge_vars, call_vars,
                pipeline_vars>>

\* Lines 525-553: the processed ZIP codes, the batch of this run and the
\* stores of the file are loaded.
LoadAcquisition ==
    /\ acq_pc = "start"
    /\ LET lines == processed_zip_file.rows
           existing == IF stores_file.exists THEN read_stores(stores_file.rows)
                       ELSE <<>>
       IN  /\ processed_zip_file' = File(lines)
           /\ processed_zip_codes' = Range(lines)
           /\ condensed_zip_list' =
                 FirstBatch(NotProcessed(EveryThird(zip_codes), Range(lines)))
           /\ stores' = existing
           /\ existing_loc_ids' = {existing[i]["Location ID"] : i \in DOMAIN existing}
    /\ zip_index' = 1
    /\ queried' = {}
    /\ processed_before' = processed_zip_file
    /\ stores_before' = stores_file
    /\ acq_pc' = "loop"
    /\ UNCHANGED <<stores_file, last_search, acq_runs>>
    /\ UNCHANGED token_vars
    /\ AcquisitionOthersUnchanged

\* Lines 556-600: one iteration of the loop, for the ZIP code at
\* zip_index.  reply is the answer of the token endpoint if it is asked,
\* outcome what the location search gives.
ProcessZip(reply, outcome) ==
    /\ acq_pc = "loop"
    /\ zip_index <= Len(condensed_zip_list)
    /\ LET zip_code == condensed_zip_list[zip_index]
       IN  IF zip_code \in processed_zip_codes
           THEN \* lines 557-559: continue
                /\ zip_index' = zip_index + 1
                /\ UNCHANGED <<processed_zip_file, processed_zip_codes, stores,
                               existing_loc_ids, queried, last_search>>
                /\ UNCHANGED token_vars
           ELSE IF Cardinality(processed_zip_codes) >= Len(zip_codes)
           THEN \* lines 561-563: break
                /\ zip_index' = Len(condensed_zip_list) + 1
                /\ UNCHANGED <<processed_zip_file, processed_zip_codes, stores,
                               existing_loc_ids, queried, last_search>>
                /\ UNCHANGED token_vars
           ELSE /\ TokenCall(reply)
                /\ IF token_pc' = "raised"
                   THEN \* lines 597-598: except Exception
                        /\ last_search' = [last_search EXCEPT ![zip_code] = "raised"]
                        /\ UNCHANGED <<processed_zip_file, processed_zip_codes,
                                       stores, existing_loc_ids, queried>>
                   ELSE \* a request without a token is refused
                        /\ token_result' \in {Unset, <<>>} => outcome = "request error"
                        /\ queried' = queried \cup {zip_code}
                        /\ last_search' = [last_search EXCEPT ![zip_code] = outcome]
                        /\ LET found == IF outcome = "data"
                                        THEN AppendUnseen(stores, existing_loc_ids,
                                                          StoresNear(zip_code), zip_code)
                                        ELSE [stores |-> stores, ids |-> existing_loc_ids]
                           IN  /\ stores' = found.stores
                               /\ existing_loc_ids' = found.ids
                        /\ processed_zip_codes' = processed_zip_codes \cup {zip_code}
                        /\ processed_zip_file' =
                              File(Append(processed_zip_file.rows, zip_code))
                /\ zip_index' = zip_index + 1
    /\ UNCHANGED <<stores_file, acq_pc, condensed_zip_list, processed_before,
                   stores_before, acq_runs>>
    /\ AcquisitionOthersUnchanged

\* Lines 603-610: after the loop the stores are appended to the file;
\* without stores stores_df is not bound and line 610 raises NameError.
SaveStores ==
    /\ acq_pc = "loop"
    /\ zip_index > Len(condensed_zip_list)
    /\ IF stores # <<>>
       THEN /\ stores_file' = File(stores_file.rows \o stores)
            /\ acq_pc' = "finished"
       ELSE /\ UNCHANGED stores_file
            /\ acq_pc' = "raised"
    /\ UNCHANGED <<processed_zip_file, processed_zip_codes, condensed_zip_list,
                   stores, existing_loc_ids, zip_index, queried, last_search,
                   processed_before, stores_before, acq_runs>>
    /\ UNCHANGED token_vars
    /\ AcquisitionOthersUnchanged

\* The notebook is run again, in a new process (line 294 loads its
\* environment).
RunAcquisitionAgain(is_env_file) ==
    /\ acq_pc \in {"finished", "raised"}
    /\ acq_runs < MaxAcquisitionRuns
    /\ acq_runs' = acq_runs + 1
    /\ acq_pc' = "start"
    /\ processed_zip_codes' = {}
    /\ condensed_zip_list' = <<>>
    /\ stores' = <<>>
    /\ existing_loc_ids' = {}
    /\ zip_index' = 0
    /\ environ' = load_dotenv(ENV_FILE, is_env_file)
    /\ env_loaded' = is_env_file
    /\ token_pc' = "ready"
    /\ token_result' = Unset
    /\ posted' = FALSE
    /\ token_call' = NoCall
    /\ UNCHANGED <<ENV_FILE, now, calls>>
    /\ UNCHANGED <<processed_zip_file, stores_file, queried, last_search,
                   processed_before, stores_before>>
    /\ AcquisitionOthersUnchanged

(***************************************************************************)
(* Specifications: one per stage, each from the inputs of that stage.      *)
(***************************************************************************)
CensusInit ==
    CensusStart /\ ProductIdle /\ GeoIdle /\ MergeIdle /\ CallIdle /\ PipelineIdle /\ TokenIdle /\ AcquisitionIdle

CensusNext == CensusFileNotFound \/ process_census_data

SpecCensus == CensusInit /\ [][CensusNext]_vars

ProductInit ==
    CensusIdle /\ ProductStart /\ GeoIdle /\ MergeIdle /\ CallIdle /\ PipelineIdle /\ TokenIdle /\ AcquisitionIdle

ProductNext ==
    \/ ProductFileNotFound
    \/ ProductDataEmpty
    \/ clean_product_data_raises
    \/ clean_product_data

SpecProduct == ProductInit /\ [][ProductNext]_vars

GeoInit ==
    CensusIdle /\ ProductIdle /\ GeoStart /\ MergeIdle /\ CallIdle /\ PipelineIdle /\ TokenIdle /\ AcquisitionIdle

GeoNext ==
    \/ LocationFileNotFound
    \/ LoadWithCleanedFile
    \/ LoadWithoutCleanedFile
    \/ NewLocationsUnbound
    \/ AllLocationsProcessed
    \/ BeginGeocoding
    \/ \E outcome \in GeocodeOutcomes : GeocodeAttempt(outcome)
    \/ GeocodeExhausted
    \/ WriteCleanedLocations
    \/ RunLocationCleaningAgain

SpecGeo == GeoInit /\ [][GeoNext]_vars

MergeInit ==
    MergeStart /\ CallIdle /\ PipelineIdle /\ TokenIdle /\ AcquisitionIdle

MergeNext ==
    \/ CensusDataNotFound
    \/ LocationDataNotFound
    \/ SummariseLocations
    \/ ProductDataNotFound
    \/ AggregateProducts
    \/ SummariseStores
    \/ KeywordMergeRaises
    \/ SummariseZips
    \/ WriteFinalDataset

SpecMerge == MergeInit /\ [][MergeNext]_vars

\* The steps of one run of geocode_store_locations once its loop is
\* entered: the script is sequential and takes its next step when it has
\* one (a call of the service returns or raises).
GeocodingStep ==
    \/ \E outcome \in GeocodeOutcomes : GeocodeAttempt(outcome)
    \/ GeocodeExhausted
    \/ WriteCleanedLocations

SpecGeoFair == GeoInit /\ [][GeoNext]_vars /\ WF_vars(GeocodingStep)

CallInit ==
    CensusIdle /\ ProductIdle /\ GeoIdle /\ MergeIdle /\ CallStart /\ PipelineIdle /\ TokenIdle /\ AcquisitionIdle

CallNext ==
    \/ call_pad_location_id
    \/ call_classify_product
    \/ call_extract_quantity
    \/ call_extract_uom

SpecCalls == CallInit /\ [][CallNext]_vars

PipelineInit == PipelineStart /\ CallIdle /\ TokenIdle /\ AcquisitionIdle

PipelineNext ==
    \/ StartScript
    \/ \E status \in ExitStatuses : ScriptFails(status)
    \/ \E written \in BOOLEAN : ScriptSucceeds(written)
    \/ CheckFinalDataset

SpecPipeline == PipelineInit /\ [][PipelineNext]_vars

TokenInit ==
    CensusIdle /\ ProductIdle /\ GeoIdle /\ MergeIdle /\ CallIdle /\ PipelineIdle
    /\ TokenStart /\ AcquisitionIdle

TokenNext ==
    \/ \E reply \in TokenReplies : call_get_kroger_location_token(reply)
    \/ Tick
    \/ \E is_env_file \in BOOLEAN : RestartNotebook(is_env_file)

SpecToken == TokenInit /\ [][TokenNext]_vars

\* The env file after an earlier session of the notebook obtained a token.
StoredTokenFile ==
    get_kroger_location_token(NoKeys, NoKeys, 0, "200", Token(1)).ENV_FILE

\* The process of the first run: the env file holds no token yet, or the
\* token of an earlier session, and load_dotenv() has read the file or not.
AcquisitionProcessStart ==
    /\ ENV_FILE \in {NoKeys, StoredTokenFile}
    /\ env_loaded \in BOOLEAN
    /\ environ = load_dotenv(ENV_FILE, env_loaded)
    /\ calls = IF ENV_FILE = NoKeys THEN 0 ELSE 1
    /\ now = 0
    /\ token_pc = "ready"
    /\ token_result = Unset
    /\ posted = FALSE
    /\ token_call = NoCall

AcquisitionInit ==
    CensusIdle /\ ProductIdle /\ GeoIdle /\ MergeIdle /\ CallIdle /\ PipelineIdle
    /\ AcquisitionProcessStart /\ AcquisitionStart

AcquisitionNext ==
    \/ LoadAcquisition
    \/ \E reply \in TokenReplies, outcome \in SearchOutcomes : ProcessZip(reply, outcome)
    \/ SaveStores
    \/ \E is_env_file \in BOOLEAN : RunAcquisitionAgain(is_env_file)

SpecAcquire == AcquisitionInit /\ [][AcquisitionNext]_vars

(***************************************************************************)
(* Properties of the Product Cleaner (SpecProduct).                        *)
(***************************************************************************)
RawRowsIn == PRODUCTS_FILE.rows
CleanedRows == CLEANED_PRODUCTS_FILE.rows

\* The key triple of a row, the Location ID zero-padded.
PaddedTriple(row) ==
    <<row["Product ID"], zfill(row["Location ID"], LocationIdWidth),
      row["Date Retrieved"]>>

\* C1: the table clean_product_data writes holds at most one row per
\* (Product ID, Location ID, Date Retrieved), the Location ID compared
\* after zero-padding.
C1_AtMostOneRowPerTriple ==
    product_pc = "returned" =>
        \A i, j \in DOMAIN CleanedRows :
            PaddedTriple(CleanedRows[i]) = PaddedTriple(CleanedRows[j]) => i = j

\* Two active raw rows whose IDs differ as read and agree once padded were
\* cleaned into one row.
C1_Witness ==
    /\ product_pc = "returned"
    /\ Len(CleanedRows) = 1
    /\ \E i, j \in DOMAIN RawRowsIn :
        /\ RawRowsIn[i]["Location ID"] # RawRowsIn[j]["Location ID"]
        /\ PaddedTriple(RawRowsIn[i]) = PaddedTriple(RawRowsIn[j])
        /\ PaddedTriple(RawRowsIn[i]) = PaddedTriple(CleanedRows[1])
        /\ RawRowsIn[i]["Stock Level"] = TextHIGH
        /\ RawRowsIn[j]["Stock Level"] = TextHIGH

\* "unknown" in any mix of cases.
IsUnknownAnyCase(st) ==
    /\ Len(st) = Len(TextUnknown)
    /\ \A i \in DOMAIN st :
        \E k \in DOMAIN LowerCase :
            /\ LowerCase[k] = <<"u", "n", "k", "n", "o", "w", "n">>[i]
            /\ st[i] \in {LowerCase[k], UpperCase[k]}

\* A raw price cell whose numeric coercion is 0.
CoercesToZero(cell) == cell.kind # "num" \/ cell.val = Num(0) \/ cell.val = NaN

\* The three conditions of the inactive filter, on a raw row.
IsInactiveRaw(raw) ==
    /\ IsUnknownAnyCase(raw["Stock Level"])
    /\ CoercesToZero(raw["Regular Price"])
    /\ CoercesToZero(raw["Promo Price"])

\* C2: the inactive filter removes exactly the rows with stock level
\* "unknown" (any case), regular price 0 and promo price 0: no such row is
\* in the output, and the key triple of every other raw row is.
C2_InactiveFilterExact ==
    product_pc = "returned" =>
        /\ \A i \in DOMAIN CleanedRows :
            ~(/\ IsUnknownAnyCase(CleanedRows[i]["Stock Level"])
              /\ CleanedRows[i]["Regular Price"] = Num(0)
              /\ CleanedRows[i]["Promo Price"] = Num(0))
        /\ \A i \in DOMAIN RawRowsIn :
            ~IsInactiveRaw(RawRowsIn[i]) =>
                \E j \in DOMAIN CleanedRows :
                    PaddedTriple(CleanedRows[j]) = PaddedTriple(RawRowsIn[i])

\* A table with an inactive row (removed) and a row of stock level
\* "Unknown" and regular price 5 (kept) went through the cleaner.
C2_Witness ==
    /\ product_pc = "returned"
    /\ \E i, j \in DOMAIN RawRowsIn :
        /\ IsInactiveRaw(RawRowsIn[i])
        /\ RawRowsIn[j]["Stock Level"] = TextUnknown
        /\ RawRowsIn[j]["Regular Price"] = PriceCell("num", Num(5))
        /\ PaddedTriple(RawRowsIn[i]) # PaddedTriple(RawRowsIn[j])
        /\ Len(CleanedRows) = 1
        /\ PaddedTriple(CleanedRows[1]) = PaddedTriple(RawRowsIn[j])
        /\ CleanedRows[1]["Regular Price"] = Num(5)

(***************************************************************************)
(* Properties of the functions applied to one cell (SpecCalls).            *)
(***************************************************************************)
Returned(function) == callee = function /\ call_pc = "returned"

Zeros(k) == [i \in 1..k |-> "0"]

\* C14: pad_location_id gives every Location ID the width of 8 characters:
\* the output has length exactly 8 and is the input preceded by zero or
\* more "0" characters.
C14_PaddedToEightCharacters ==
    Returned("pad_location_id") =>
        /\ Len(result) = 8
        /\ \E k \in 0..8 : result = Zeros(k) \o argument

\* The first maximal run of digits and dots of a text, character by
\* character; <<>> when the text has neither.
RECURSIVE LeadingRun(_)
LeadingRun(text) ==
    IF text = <<>> \/ ~(IsDigit(text[1]) \/ text[1] = ".") THEN <<>>
    ELSE <<text[1]>> \o LeadingRun(Tail(text))

RECURSIVE FirstNumericRun(_)
FirstNumericRun(text) ==
    IF text = <<>> THEN <<>>
    ELSE IF IsDigit(text[1]) \/ text[1] = "." THEN LeadingRun(text)
    ELSE FirstNumericRun(Tail(text))

\* C15: extract_quantity returns for every size value, never raising: the
\* sentinel -1 when the size holds no numeric token, a number otherwise,
\* also when the first run of digits and dots is not a well-formed number.
C15_ExtractQuantityNeverRaises ==
    callee = "extract_quantity" =>
        /\ call_pc # "raised"
        /\ call_pc = "returned" =>
              IF argument = NoStr \/ FirstNumericRun(argument) = <<>>
              THEN result = Num(-1)
              ELSE IsFinite(result) /\ FLeq(Num(0), result)

IsLetters(text) == \A i \in DOMAIN text : IsAlpha(text[i])

\* C16: extract_uom returns the trailing alphabetic run of the size, a
\* non-empty text of letters only that ends the size, and "unit" when the
\* size has no letter or is missing.
C16_UomIsTrailingAlphabeticRun ==
    Returned("extract_uom") =>
        IF argument # NoStr /\ \E i \in DOMAIN argument : IsAlpha(argument[i])
        THEN /\ result # <<>>
             /\ IsLetters(result)
             /\ Len(result) <= Len(argument)
             /\ result = SubSeq(argument, Len(argument) - Len(result) + 1,
                                Len(argument))
        ELSE result = <<"u", "n", "i", "t">>

\* Whether the text holds the word at some position, in any mix of cases;
\* letters lists the two cases of each letter of the word.
HoldsWord(text, letters) ==
    \E i \in 1..(Len(text) - Len(letters) + 1) :
        \A j \in DOMAIN letters : text[i + j - 1] \in letters[j]

HoldsEgg(text) == HoldsWord(text, <<{"e", "E"}, {"g", "G"}, {"g", "G"}>>)
HoldsBread(text) ==
    HoldsWord(text, <<{"b", "B"}, {"r", "R"}, {"e", "E"}, {"a", "A"}, {"d", "D"}>>)

\* C17: classify_product gives every description one label of Egg, Bread
\* and Other: Egg iff the description holds "egg" in any case, Bread iff it
\* holds "bread" and not "egg", Other otherwise.
C17_ClassifyBySubstringEggFirst ==
    (callee = "classify_product" /\ argument # NoStr) =>
        /\ call_pc # "raised"
        /\ call_pc = "returned" =>
              /\ result \in {"Egg", "Bread", "Other"}
              /\ result = "Egg" <=> HoldsEgg(argument)
              /\ result = "Bread" <=> (HoldsBread(argument) /\ ~HoldsEgg(argument))

\* A description with both words, in upper and lower case, is an Egg.
C17_Witness ==
    /\ Returned("classify_product")
    /\ HoldsEgg(argument)
    /\ HoldsBread(argument)
    /\ argument # lower(argument)
    /\ result = "Egg"

(***************************************************************************)
(* Properties of the Census Normalizer (SpecCensus).                       *)
(***************************************************************************)
CensusRowsIn == CENSUS_FILE.rows
CensusRowsOut == PROCESSED_CENSUS_FILE.rows

\* C7: every percentage field process_census_data writes lies in [0, 1].
C7_PercentagesInUnitInterval ==
    census_pc = "returned" =>
        \A i \in DOMAIN CensusRowsOut : \A c \in PctCols :
            /\ FLeq(Num(0), CensusRowsOut[i][c])
            /\ FLeq(CensusRowsOut[i][c], Num(1))

\* C8: a row whose Total Population is 0 gets 0 in every percentage field,
\* whatever its raw counts.
C8_ZeroPopulationGivesZero ==
    census_pc = "returned" =>
        \A i \in DOMAIN CensusRowsIn :
            CensusRowsIn[i]["Total Population"] = Num(0) =>
                \A c \in PctCols : CensusRowsOut[i][c] = Num(0)

(***************************************************************************)
(* Properties of the Location Resolver (SpecGeo).                          *)
(***************************************************************************)
RawLocations == LOCATIONS_FILE.rows

\* The Location IDs of the resolved file the run found.
ResolvedBefore == {IdOf(cleaned_before.rows[i]) : i \in DOMAIN cleaned_before.rows}

\* C9: a run that finds no resolved file looks up every raw record by its
\* full address and writes a resolved file with one record per raw
\* record, carrying the latitude, longitude and ZIP code returned.
C9_FirstRunGeocodesEveryRecord ==
    (GeoEnded /\ LOCATIONS_FILE.exists /\ ~cleaned_before.exists) =>
        /\ \A i \in DOMAIN RawLocations :
            <<IdOf(RawLocations[i]), FullAddress(RawLocations[i])>> \in looked_up
        /\ CLEANED_LOCATIONS_FILE.exists
        /\ Len(CLEANED_LOCATIONS_FILE.rows) = Len(RawLocations)
        /\ \A i \in DOMAIN CLEANED_LOCATIONS_FILE.rows :
            LET row == CLEANED_LOCATIONS_FILE.rows[i]
            IN  /\ IdOf(row) = IdOf(RawLocations[i])
                /\ row["Latitude"] \in {GeocodedLat(IdOf(row)), NaN}
                /\ row["Longitude"] \in {GeocodedLng(IdOf(row)), NaN}
                /\ row["ZIP Code"] \in {<<GeocodedZip(IdOf(row))>>, NoStr}

\* C10: no lookup is issued for a raw record whose Location ID is in the
\* resolved file the run found; and when every raw Location ID is in it,
\* the run issues no lookup, returns that table and leaves the file as it is.
C10_ResolvedRecordsAreSkipped ==
    /\ \A i \in DOMAIN RawLocations :
            IdOf(RawLocations[i]) \in ResolvedBefore =>
                \A l \in looked_up : l[1] # IdOf(RawLocations[i])
    /\ (/\ GeoEnded
        /\ LOCATIONS_FILE.exists
        /\ cleaned_before.exists
        /\ \A i \in DOMAIN RawLocations : IdOf(RawLocations[i]) \in ResolvedBefore)
       => /\ looked_up = {}
          /\ geo_pc = "returned cleaned_df"
          /\ cleaned_df = cleaned_before.rows
          /\ CLEANED_LOCATIONS_FILE = cleaned_before

\* A run found one of two raw records resolved, looked up the other one
\* only, and wrote the file.
C10_Witness ==
    /\ geo_pc = "returned updated_df"
    /\ cleaned_before.exists
    /\ \E i, j \in DOMAIN RawLocations :
        /\ IdOf(RawLocations[i]) \in ResolvedBefore
        /\ IdOf(RawLocations[j]) \notin ResolvedBefore
        /\ looked_up = {<<IdOf(RawLocations[j]), FullAddress(RawLocations[j])>>}

ResolvedRows == CLEANED_LOCATIONS_FILE.rows

\* C11: whatever the runs and the raw table (one that lists a Location ID
\* in several rows included), the resolved file holds at most one record
\* per Location ID.
C11_OneRecordPerLocationId ==
    CLEANED_LOCATIONS_FILE.exists =>
        \A i, j \in DOMAIN ResolvedRows :
            i # j => IdOf(ResolvedRows[i]) # IdOf(ResolvedRows[j])

\* The loop of geocode_store_locations is at a row, fetch_geocode running.
InFetchGeocode == geo_pc = "geocoding" /\ position <= Len(new_locations.rows)

HasNullGeocode(row) ==
    /\ row["Latitude"] = NaN
    /\ row["Longitude"] = NaN
    /\ row["ZIP Code"] = NoStr

\* (Properties of the Location Resolver under fairness, SpecGeoFair.)
\* C12: fetch_geocode calls the service at most GeocodeAttempts = 3 times
\* for one address and ends; when no attempt gave a result, the record
\* stays in new_locations with null Latitude, Longitude and ZIP Code, and
\* every record of new_locations is in the resolved file the run writes.
C12_BoundedRetriesAndRecordKept ==
    /\ [](attempt <= GeocodeAttempts)
    /\ [][/\ (InFetchGeocode /\ attempt' = attempt + 1)
                => attempt < GeocodeAttempts
          /\ (InFetchGeocode /\ attempt = GeocodeAttempts)
                => /\ position' = position + 1
                   /\ Len(new_locations'.rows) = Len(new_locations.rows)
                   /\ IdOf(new_locations'.rows[position])
                        = IdOf(new_locations.rows[position])
                   /\ HasNullGeocode(new_locations'.rows[position])]_vars
    /\ [](geo_pc = "returned updated_df" =>
            /\ Len(ResolvedRows) = Len(cleaned_df) + Len(new_locations.rows)
            /\ \A i \in DOMAIN new_locations.rows :
                  new_locations.rows[i] \in Range(ResolvedRows))
    /\ (InFetchGeocode ~> ~InFetchGeocode)
    /\ (geo_pc = "geocoding" ~> geo_pc = "returned updated_df")

\* A run wrote the resolved file with a record for which all three
\* attempts failed.
C12_Witness ==
    /\ geo_pc = "returned updated_df"
    /\ \E i \in DOMAIN new_locations.rows :
          /\ HasNullGeocode(new_locations.rows[i])
          /\ <<IdOf(new_locations.rows[i]), new_locations.rows[i]["Full Address"]>>
                \in looked_up
          /\ new_locations.rows[i] \in Range(ResolvedRows)

\* C13: a call of the geocoding service that follows another call of the
\* same run (a retry for the same address, or the lookup of the next
\* record) comes after a time.sleep(1) that ran since that other call.
C13_SleepBetweenCalls ==
    (InFetchGeocode /\ attempt < GeocodeAttempts /\ (position > 1 \/ attempt > 0))
        => slept

(***************************************************************************)
(* Properties of the Merge and Aggregation stage (SpecMerge).              *)
(***************************************************************************)
ProductRowsIn == CLEANED_PRODUCTS_FILE.rows

\* The statements of zip_merge.py after which each table is computed.
ProductsGrouped ==
    merge_pc \in {"products grouped", "stores summarised", "zips summarised", "done"}
StoresSummarised == merge_pc \in {"stores summarised", "zips summarised", "done"}
ZipsSummarised == merge_pc \in {"zips summarised", "done"}

HasPositiveQuantity(row) == IsPositive(row["Quantity"])

\* The summaries as they come out of the observations with quantity > 0.
StoreSummaryOfPositive ==
    StoreProductSummary(
        ProductGroupedDf(SelectSeq(ProductRowsIn, HasPositiveQuantity)),
        CLEANED_LOCATIONS_FILE.rows)
ZipSummaryOfPositive == ZipProductComplete(StoreSummaryOfPositive)

PriceStatistics == {"Avg_Price", "Min_Price", "Max_Price", "Median_Price"}

\* The row of the table expected that has the key and the price
\* statistics of row.
SamePricesIn(row, by, expected) ==
    \E j \in DOMAIN expected :
        /\ KeyOf(expected[j], by) = KeyOf(row, by)
        /\ \A c \in PriceStatistics : expected[j][c] = row[c]

\* C3: no observation whose quantity is not greater than 0 contributes to
\* a per-unit price aggregate: every ProductAggregate is of a group with
\* quantity > 0, and the Avg, Min, Max and Median price of every store-level
\* and ZIP-level row are those computed from the observations with
\* quantity > 0 alone.
C3_NonPositiveQuantityExcluded ==
    /\ ProductsGrouped =>
          \A i \in DOMAIN product_grouped_df :
              HasPositiveQuantity(product_grouped_df[i])
    /\ StoresSummarised =>
          \A i \in DOMAIN store_product_summary :
              SamePricesIn(store_product_summary[i],
                           <<"Location ID", "Product Category", "UOM", "ZIP Code">>,
                           StoreSummaryOfPositive)
    /\ ZipsSummarised =>
          \A i \in DOMAIN zip_product_complete :
              SamePricesIn(zip_product_complete[i],
                           <<"ZIP Code", "Product Category">>,
                           ZipSummaryOfPositive)

\* The observations of the group of a ProductAggregate row.
ObservationsOf(aggregate) ==
    GroupRows(ProductRowsIn, ProductGroupBy, KeyOf(aggregate, ProductGroupBy))

\* C4: Most_Recent_Price of every ProductAggregate is the per-unit price of
\* the observation of the group with the latest Date Retrieved, the one
\* Most_Recent_Date is taken from, whatever the order of the rows.
C4_MostRecentPriceIsAtLatestDate ==
    ProductsGrouped =>
        \A i \in DOMAIN product_grouped_df :
            LET aggregate == product_grouped_df[i]
                rows == ObservationsOf(aggregate)
            IN  \A k \in DOMAIN rows :
                    /\ aggregate["Most_Recent_Date"] # NaT
                    /\ rows[k]["Date Retrieved"] = aggregate["Most_Recent_Date"]
                    => aggregate["Most_Recent_Price"] = rows[k]["Price per Unit"]

\* C5: for every ProductAggregate, Promo_Observations <= Total_Observations
\* and 0 <= Promo_Frequency <= 1, and Promo_Frequency is 0 when both counts
\* are 0, rows with a missing Date Retrieved included.
C5_PromoFrequencyInUnitInterval ==
    ProductsGrouped =>
        \A i \in DOMAIN product_grouped_df :
            LET aggregate == product_grouped_df[i]
                frequency == aggregate["Promo_Frequency"]
            IN  /\ aggregate["Promo_Observations"] <= aggregate["Total_Observations"]
                /\ FLeq(Num(0), frequency)
                /\ FLeq(frequency, Num(1))
                /\ (/\ aggregate["Promo_Observations"] = 0
                    /\ aggregate["Total_Observations"] = 0)
                   => frequency = Num(0)

\* The joined table of which final_dataset.csv keeps the complete rows.
JoinedTable == ZipProductLocationComplete(zip_location_summary, zip_product_complete)
FinalRows == FINAL_DATASET.rows

\* C6: every row of the final table written has a value in every column; a
\* row of the joined table with a missing value in any column is not in the
\* final table, and every final row is a row of the joined table as it was
\* (nothing is imputed).
C6_FinalRowsAreComplete ==
    merge_pc = "done" =>
        /\ FINAL_DATASET.exists
        /\ \A i \in DOMAIN FinalRows :
              /\ \A c \in DOMAIN FinalRows[i] : ~IsNullCell(c, FinalRows[i][c])
              /\ FinalRows[i] \in Range(JoinedTable)
        /\ \A j \in DOMAIN JoinedTable :
              (\E c \in DOMAIN JoinedTable[j] :
                   IsNullCell(c, JoinedTable[j][c]))
              => JoinedTable[j] \notin Range(FinalRows)

\* A finished merge whose joined table had a row with a missing value,
\* which is not written, and a complete row, which is.
C6_Witness ==
    /\ merge_pc = "done"
    /\ FinalRows # <<>>
    /\ \E j \in DOMAIN JoinedTable :
          /\ \E c \in DOMAIN JoinedTable[j] : IsNullCell(c, JoinedTable[j][c])
          /\ JoinedTable[j] \notin Range(FinalRows)

HasPromo(row) == IsPositive(row["Promo Price"])

\* C18: Promo_Price_Avg of every ProductAggregate is the mean per-unit
\* promo price over the observations of the group with a promo price > 0,
\* the ones Promo_Observations counts, and 0 when there is none; so it is 0
\* iff Promo_Observations is 0.
C18_PromoPriceAvgOverPromoObservations ==
    ProductsGrouped =>
        \A i \in DOMAIN product_grouped_df :
            LET aggregate == product_grouped_df[i]
                promos == SelectSeq(ObservationsOf(aggregate), HasPromo)
            IN  /\ aggregate["Promo_Observations"] = Len(promos)
                /\ aggregate["Promo_Price_Avg"] =
                      IF promos = <<>> THEN Num(0)
                      ELSE FDiv(SumSeq(Column(promos, "Promo Price per Unit")),
                                Num(Len(promos)))
                /\ aggregate["Promo_Price_Avg"] = Num(0)
                      <=> aggregate["Promo_Observations"] = 0

IsLowerLetter(ch) == ch \in Range(LowerCase)

ExcludedWords ==
    {<<"e", "g", "g">>, <<"e", "g", "g", "s">>, <<"b", "r", "e", "a", "d">>}

\* The tokens of a description that survive the cleaning: lowercased,
\* split at blanks, every character that is no letter taken out, the empty
\* tokens and the excluded words left out.
SurvivingTokensOf(description) ==
    LET words == split(lower(description))
        letters == [i \in DOMAIN words |-> SelectSeq(words[i], IsLowerLetter)]
        Survives(word) == word # <<>> /\ word \notin ExcludedWords
    IN  SelectSeq(letters, Survives)

\* The surviving tokens of the descriptions of a store and category, one
\* description per ProductAggregate of the group.
SurvivingTokens(location, category) ==
    LET InGroup(aggregate) ==
            /\ aggregate["Location ID"] = location
            /\ aggregate["Product Category"] = category
        group == SelectSeq(product_grouped_df, InGroup)
    IN  Flatten([i \in DOMAIN group |-> SurvivingTokensOf(group[i]["Description"])])

SentinelList == << <<"o", "t", "h", "e", "r">> >>

\* What C19 and its amended form share: the tokens of the keyword list of
\* every store and category are non-empty and lowercase alphabetic, none
\* is an excluded word, and when tokens survive the list holds each of
\* them once per occurrence.
KeywordListHoldsSurvivors(row) ==
    LET keywords == row["Keyword_Lists"]
        surviving == SurvivingTokens(row["Location ID"], row["Product Category"])
    IN  /\ \A k \in DOMAIN keywords :
              /\ keywords[k] # <<>>
              /\ \A c \in DOMAIN keywords[k] : IsLowerLetter(keywords[k][c])
              /\ keywords[k] \notin ExcludedWords
        /\ surviving # <<>> => keywords = surviving

\* C19: as above, and the keyword list is the sentinel list ["other"] if
\* and only if no token of the group survives the cleaning.
C19_SentinelIffNoTokenSurvives ==
    StoresSummarised =>
        \A i \in DOMAIN store_product_summary :
            LET row == store_product_summary[i]
            IN  /\ KeywordListHoldsSurvivors(row)
                /\ row["Keyword_Lists"] = SentinelList
                      <=> SurvivingTokens(row["Location ID"],
                                          row["Product Category"]) = <<>>

\* C19 amended: as above, and the keyword list is the sentinel list
\* ["other"] if no token of the group survives (a list of surviving tokens
\* can be ["other"] too).
C19_SentinelIfNoTokenSurvives ==
    StoresSummarised =>
        \A i \in DOMAIN store_product_summary :
            LET row == store_product_summary[i]
            IN  /\ KeywordListHoldsSurvivors(row)
                /\ SurvivingTokens(row["Location ID"], row["Product Category"]) = <<>>
                      => row["Keyword_Lists"] = SentinelList

\* Store summaries with a group none of whose tokens survives, a group
\* whose one surviving token is the word other, and a group with another
\* surviving token.
C19_Witness ==
    /\ StoresSummarised
    /\ \E i \in DOMAIN store_product_summary :
          LET row == store_product_summary[i]
              surviving == SurvivingTokens(row["Location ID"], row["Product Category"])
          IN  \/ surviving = <<>> /\ row["Keyword_Lists"] = SentinelList
              \/ surviving = SentinelList /\ row["Keyword_Lists"] = SentinelList
    /\ \E i \in DOMAIN store_product_summary :
          store_product_summary[i]["Keyword_Lists"] # SentinelList

\* The keyword lists of the stores of a ZIP code in a category, one list
\* per store.
KeywordListsOfZip(zip, category) ==
    LET InGroup(row) == row["ZIP Code"] = zip /\ row["Product Category"] = category
        rows == SelectSeq(store_product_summary, InGroup)
        store_keys == GroupKeys(rows, <<"Location ID">>)
    IN  [k \in DOMAIN store_keys |->
            GroupRows(rows, <<"Location ID">>, store_keys[k])[1]["Keyword_Lists"]]

\* C20: in every row of the ZIP product summary, the count of a word in
\* ZIP_Keyword_Frequency is the number of its occurrences in the keyword
\* lists of the stores of the ZIP code in the category, the list of each
\* store counted once, however many units of measure the store sells.
C20_KeywordListCountedOncePerStore ==
    ZipsSummarised =>
        \A i \in DOMAIN zip_product_complete :
            LET row == zip_product_complete[i]
            IN  row["ZIP_Keyword_Frequency"] =
                    Counter(Flatten(KeywordListsOfZip(row["ZIP Code"],
                                                      row["Product Category"])))

\* No two rows of the table have the same values in the columns of subset.
OneRowPer(df, subset) ==
    \A i, j \in DOMAIN df : i # j => KeyOf(df[i], subset) # KeyOf(df[j], subset)

CensusOneRowPerZip == OneRowPer(PROCESSED_CENSUS_FILE.rows, <<"ZIP Code">>)
BoundariesOneRowPerZip == OneRowPer(SHAPEFILE.rows, <<"ZIP Code">>)

RepeatsLocationId(df) == ~OneRowPer(df, <<"Location ID">>)

\* C21: when the census file and the shapefile have one row per ZIP code,
\* final_dataset.csv has at most one row per (ZIP Code, Product Category),
\* whatever the location and product files hold, a cleaned location file
\* that repeats a Location ID included.
C21_OneFinalRowPerZipAndCategory ==
    (merge_pc = "done" /\ CensusOneRowPerZip /\ BoundariesOneRowPerZip)
        => OneRowPer(FinalRows, <<"ZIP Code", "Product Category">>)

\* A final dataset written from a location file that lists a store twice.
C21_Witness ==
    /\ merge_pc = "done"
    /\ CensusOneRowPerZip /\ BoundariesOneRowPerZip
    /\ RepeatsLocationId(CLEANED_LOCATIONS_FILE.rows)
    /\ FinalRows # <<>>

\* A required input file of zip_merge.py is missing (the shapefile is
\* optional: lines 479-488 go on without it).
MergeInputMissing ==
    \/ ~PROCESSED_CENSUS_FILE.exists
    \/ ~CLEANED_LOCATIONS_FILE.exists
    \/ ~CLEANED_PRODUCTS_FILE.exists

\* C22: in every stage, a run that finds an input file missing ends after
\* its message without writing the output file of the stage and without
\* raising an error.
C22_MissingInputEndsQuietly ==
    /\ (census_pc \notin {"idle", "start"} /\ ~CENSUS_FILE.exists)
          => census_pc = "returned None" /\ ~PROCESSED_CENSUS_FILE.exists
    /\ (product_pc \notin {"idle", "start"} /\ ~PRODUCTS_FILE.exists)
          => product_pc = "returned None" /\ ~CLEANED_PRODUCTS_FILE.exists
    /\ (geo_pc \notin {"idle", "start"} /\ ~LOCATIONS_FILE.exists)
          => geo_pc = "returned None" /\ CLEANED_LOCATIONS_FILE = cleaned_before
    /\ (merge_pc \notin {"idle", "start"} /\ MergeInputMissing)
          => merge_pc # "raised" /\ ~FINAL_DATASET.exists

\* The scripts started so far are the first ones of the fixed order.
StartedInOrder == started = SubSeq(Scripts, 1, Len(started))

\* C23: the orchestrator starts the scripts in the order census, product,
\* location, merge; a script is started only after the one before it has
\* exited with status 0; after a script exits with another status no
\* script is started and the orchestrator exits with status 1; the success
\* message is printed only when final_dataset.csv exists after the merge
\* script has exited.
C23_StagesInOrderAndStopOnFailure ==
    /\ Len(started) <= Len(Scripts) /\ StartedInOrder
    /\ \A k \in 2..Len(started) : Len(statuses) >= k - 1 /\ statuses[k - 1] = 0
    /\ \A k \in DOMAIN statuses :
          statuses[k] # 0 =>
              /\ Len(started) = k
              /\ pipeline_pc = "exited"
              /\ exit_status = 1
              /\ message = "none"
    /\ message = "generated successfully" =>
          /\ Len(statuses) = Len(Scripts)
          /\ FINAL_DATASET.exists

\* A run that printed the success message after the four scripts.
C23_Witness ==
    /\ pipeline_pc = "exited"
    /\ started = Scripts
    /\ statuses = <<0, 0, 0, 0>>
    /\ message = "generated successfully"

\* The Location IDs of the raw file.
RawIds == {IdOf(RawLocations[i]) : i \in DOMAIN RawLocations}

\* C26: a run of geocode_store_locations that finds in the resolved file a
\* record of a raw store with null latitude, longitude and ZIP code (as a
\* run leaves it when the attempts are exhausted) looks that store up
\* again, so that the record can get its coordinates and ZIP code.
C26_ExhaustedRecordLookedUpAgain ==
    (GeoEnded /\ LOCATIONS_FILE.exists /\ cleaned_before.exists) =>
        \A i \in DOMAIN cleaned_before.rows :
            LET row == cleaned_before.rows[i]
            IN  (HasNullGeocode(row) /\ IdOf(row) \in RawIds) =>
                    \E l \in looked_up : l[1] = IdOf(row)

\* The records the run has geocoded: the rows of new_locations the loop is
\* done with, which the run writes after the records it found.
GeocodedRecords ==
    IF geo_pc = "geocoding" \/ geo_pc = "returned updated_df"
    THEN SubSeq(new_locations.rows, 1, position - 1)
    ELSE <<>>

\* The records the run that has just written the file appended to it.
WrittenRecords ==
    IF geo_pc = "returned updated_df"
    THEN SubSeq(ResolvedRows, Len(cleaned_df) + 1, Len(ResolvedRows))
    ELSE <<>>

HasWholeGeocode(row) ==
    /\ row["Latitude"] # NaN
    /\ row["Longitude"] # NaN
    /\ row["ZIP Code"] # NoStr

\* C29: the latitude, longitude and ZIP code of every record a run has
\* geocoded are all null or all non-null, in new_locations and in the
\* file the run writes.
C29_GeocodeAllOrNothing ==
    /\ \A i \in DOMAIN GeocodedRecords :
          HasNullGeocode(GeocodedRecords[i]) \/ HasWholeGeocode(GeocodedRecords[i])
    /\ \A i \in DOMAIN WrittenRecords :
          HasNullGeocode(WrittenRecords[i]) \/ HasWholeGeocode(WrittenRecords[i])

CoordinatesAllOrNothing(row) ==
    /\ row["Latitude"] = NaN <=> row["Longitude"] = NaN
    /\ row["Latitude"] = NaN => row["ZIP Code"] = NoStr

\* C29 amended: the latitude and longitude of every record a run has
\* geocoded are both null or both non-null, and the ZIP code is null when
\* they are null (it is also null when the service answers without a
\* postal code); the run writes the records as it geocoded them.
C29_CoordinatesAllOrNothing ==
    /\ \A i \in DOMAIN GeocodedRecords : CoordinatesAllOrNothing(GeocodedRecords[i])
    /\ geo_pc = "returned updated_df" => WrittenRecords = GeocodedRecords

\* A run wrote a record whose attempts were exhausted and a record with
\* coordinates.
C29_Witness ==
    /\ geo_pc = "returned updated_df"
    /\ \E i \in DOMAIN WrittenRecords : HasNullGeocode(WrittenRecords[i])
    /\ \E i \in DOMAIN WrittenRecords : WrittenRecords[i]["Latitude"] # NaN

\* The sum of a column of counts.
TotalOf(counts) ==
    LET Sum[n \in 0..Len(counts)] ==
            IF n = 0 THEN 0 ELSE Sum[n - 1] + counts[n]
    IN  Sum[Len(counts)]

\* C28: every row of the cleaned product table is counted in one
\* ProductAggregate group: the Total_Observations of product_grouped_df add
\* up to the number of rows of the cleaned product table, the rows with a
\* missing Brand, Description, UOM or Date Retrieved included.
C28_EveryObservationCounted ==
    ProductsGrouped =>
        TotalOf(Column(product_grouped_df, "Total_Observations"))
            = Len(ProductRowsIn)

\* C30: process_census_data writes one row per input row and changes
\* nothing but the percentage fields: Total Population and Median
\* Household Income have in the output the value of the input, a missing
\* value staying missing.
C30_RetainedColumnsUnchanged ==
    census_pc = "returned" =>
        /\ Len(CensusRowsOut) = Len(CensusRowsIn)
        /\ \A i \in DOMAIN CensusRowsIn : \A c \in KeptCols :
              CensusRowsOut[i][c] = CensusRowsIn[i][c]

\* The token and expiration an earlier call stored, as the call of
\* get_kroger_location_token found them: in the environment of the process,
\* or else in the env file when load_dotenv() of the process read its keys.
IsStored(env, key) == getenv(env, key) \notin {Unset, <<>>}

CachedInEnviron ==
    /\ IsStored(token_call.environ, "LOCATION_ACCESS_TOKEN")
    /\ IsStored(token_call.environ, "LOCATION_TOKEN_EXPIRATION")

CachedInEnvFile ==
    /\ env_loaded
    /\ IsStored(token_call.ENV_FILE, "LOCATION_ACCESS_TOKEN")
    /\ IsStored(token_call.ENV_FILE, "LOCATION_ACCESS_TOKEN_EXPIRATION")

HasCachedToken == CachedInEnviron \/ CachedInEnvFile

CachedToken ==
    IF CachedInEnviron THEN token_call.environ["LOCATION_ACCESS_TOKEN"]
    ELSE token_call.ENV_FILE["LOCATION_ACCESS_TOKEN"]

CachedExpiration ==
    IF CachedInEnviron
    THEN fromisoformat(token_call.environ["LOCATION_TOKEN_EXPIRATION"])
    ELSE fromisoformat(token_call.ENV_FILE["LOCATION_ACCESS_TOKEN_EXPIRATION"])

CacheIsFresh == HasCachedToken /\ token_call.now < CachedExpiration

\* C25: a call of get_kroger_location_token requests a new token iff no
\* token is cached or the expiry of the cached token is not in the future;
\* with a token and an expiry stored by an earlier call, in the environment
\* of the process or in the env file a later run loaded, and the expiry in
\* the future, the call returns the cached token, posts nothing and does
\* not raise.
C25_CachedTokenReused ==
    token_pc \in {"returned", "raised"} =>
        /\ posted <=> ~CacheIsFresh
        /\ CacheIsFresh =>
              /\ token_pc = "returned"
              /\ token_result = CachedToken
              /\ ~posted

\* The Location IDs of the rows of a stores file.
StoreIdsOf(file) == {file.rows[i]["Location ID"] : i \in DOMAIN file.rows}

\* The ZIP codes listed in a processed file.
RecordedIn(file) == Range(file.rows)

\* C24: kroger_locations.csv holds at most one row per Location ID, and a
\* run that writes the file leaves the rows it found in place and appends
\* rows only for stores that were not in the file.
C24_OneStoreRowPerLocationId ==
    /\ \A i, j \in DOMAIN stores_file.rows :
          stores_file.rows[i]["Location ID"] = stores_file.rows[j]["Location ID"]
              => i = j
    /\ acq_pc = "finished" =>
          LET before == Len(stores_before.rows)
          IN  /\ Len(stores_file.rows) >= before
              /\ SubSeq(stores_file.rows, 1, before) = stores_before.rows
              /\ \A k \in (before + 1)..Len(stores_file.rows) :
                    stores_file.rows[k]["Location ID"] \notin StoreIdsOf(stores_before)

\* C27: in a run of the acquisition loop, a ZIP code is added to
\* processed_zips.txt only when its search returned a response; a ZIP code
\* whose search returned None is not in the file and is in the batch of a
\* later run; a ZIP code the run found in the file is not searched.
C27_FailedZipNotRecorded ==
    acq_pc \in {"loop", "finished", "raised"} =>
        /\ \A z \in RecordedIn(processed_zip_file) \ RecordedIn(processed_before) :
              last_search[z] \in {"data", "no data"}
        /\ \A z \in Range(zip_codes) :
              last_search[z] = "request error" =>
                  /\ z \notin RecordedIn(processed_zip_file)
                  /\ z \notin queried => z \in Range(condensed_zip_list)
        /\ queried \cap RecordedIn(processed_before) = {}

=============================================================================
